---- MODULE Spec2Model ----
(***************************************************************************)
(* Model of streamlit_app.py: the quantity normaliser, the quality gate,   *)
(* the cost estimator, generate_recipes and the weekly planner plan_week.  *)
(*                                                                         *)
(* Text.  A Python str is modelled as a sequence of characters.  An ASCII  *)
(* character is the one-character string itself ("g", "0", " ", ".");      *)
(* every other character is written "u" followed by its code point in      *)
(* hexadecimal ("u5375" is U+5375, the kanji for egg).  Substring tests,   *)
(* replace, strip and the regular expressions of the source are computed   *)
(* on these sequences.                                                     *)
(*                                                                         *)
(* Numbers.  A Python float is modelled as an integer number of            *)
(* ten-thousandths (Scale): the amounts the tables and the inputs hold     *)
(* have at most three decimals and the child factor 0.8 adds one.          *)
(* round() is Python's round-half-to-even.  The cost estimator adds exact   *)
(* fractions where the source adds binary floats: the two agree unless a   *)
(* total falls within a rounding error of a half, which no recipe of the   *)
(* model does at the price factor it runs with.                            *)
(***************************************************************************)
EXTENDS Integers, Sequences, FiniteSets, TLC

Scale == 10 * 10 * 10 * 10

Max(a, b) == IF a >= b THEN a ELSE b
Min(a, b) == IF a <= b THEN a ELSE b

\* round(n / d) for n >= 0, d > 0: half to even, as Python 3 rounds.
round(n, d) ==
  LET q == n \div d
      r == n % d
  IN IF 2 * r < d THEN q
     ELSE IF 2 * r > d THEN q + 1
     ELSE IF q % 2 = 0 THEN q ELSE q + 1

(***************************************************************************)
(* str operations                                                          *)
(***************************************************************************)
Digit == {"0", "1", "2", "3", "4", "5", "6", "7", "8", "9"}

DigitVal(c) ==
  CASE c = "0" -> 0 [] c = "1" -> 1 [] c = "2" -> 2 [] c = "3" -> 3
    [] c = "4" -> 4 [] c = "5" -> 5 [] c = "6" -> 6 [] c = "7" -> 7
    [] c = "8" -> 8 [] c = "9" -> 9

DigitChar(n) ==
  CASE n = 0 -> "0" [] n = 1 -> "1" [] n = 2 -> "2" [] n = 3 -> "3"
    [] n = 4 -> "4" [] n = 5 -> "5" [] n = 6 -> "6" [] n = 7 -> "7"
    [] n = 8 -> "8" [] n = 9 -> "9"

\* \s of the re module and the characters str.strip() removes:
\* the space and U+3000, the ideographic space.
Whitespace == {" ", "u3000"}

\* text[i:i+len(key)] == key
StartsAt(key, text, i) ==
  /\ i >= 1
  /\ i + Len(key) - 1 <= Len(text)
  /\ \A k \in 1..Len(key) : text[i + k - 1] = key[k]

\* key in text
In(key, text) == \E i \in 1..(Len(text) - Len(key) + 1) : StartsAt(key, text, i)

\* any(k in text for k in keys), keys a sequence of strings
AnyIn(keys, text) == \E n \in 1..Len(keys) : In(keys[n], text)

\* text.replace(old, new), old not empty
RECURSIVE replace(_, _, _)
replace(text, old, new) ==
  IF Len(text) = 0 THEN <<>>
  ELSE IF StartsAt(old, text, 1)
       THEN new \o replace(SubSeq(text, Len(old) + 1, Len(text)), old, new)
       ELSE <<text[1]>> \o replace(Tail(text), old, new)

RECURSIVE lstrip(_)
lstrip(text) ==
  IF Len(text) > 0 /\ text[1] \in Whitespace THEN lstrip(Tail(text)) ELSE text

RECURSIVE rstrip(_)
rstrip(text) ==
  IF Len(text) > 0 /\ text[Len(text)] \in Whitespace
  THEN rstrip(SubSeq(text, 1, Len(text) - 1)) ELSE text

\* text.strip()
strip(text) == rstrip(lstrip(text))

\* str.lower() on one character: the ASCII capitals the unit markers use.
LowerChar(c) ==
  CASE c = "G" -> "g" [] c = "K" -> "k" [] c = "L" -> "l" [] c = "M" -> "m"
    [] c = "C" -> "c" [] c = "W" -> "w" [] OTHER -> c

\* text.lower()
lower(text) == [i \in 1..Len(text) |-> LowerChar(text[i])]

\* sep.join(parts)
RECURSIVE join(_, _)
join(sep, parts) ==
  IF Len(parts) = 0 THEN <<>>
  ELSE IF Len(parts) = 1 THEN parts[1]
  ELSE parts[1] \o sep \o join(sep, Tail(parts))

(***************************************************************************)
(* numbers in text                                                         *)
(***************************************************************************)
\* The last index of the run of digits that starts at i; i - 1 when
\* text[i] is no digit.
RECURSIVE DigitRunEnd(_, _)
DigitRunEnd(text, i) ==
  IF i <= Len(text) /\ text[i] \in Digit THEN DigitRunEnd(text, i + 1) ELSE i - 1

\* The fraction after the digits text[i..e], when there is one: the last
\* index of the match of [0-9]+(?:\.[0-9]+)? at i, 0 when no digit is at i.
NumEndAfter(text, i, e) ==
  IF e < i THEN 0
  ELSE IF e + 2 <= Len(text) /\ text[e + 1] = "." /\ DigitRunEnd(text, e + 2) >= e + 2
       THEN DigitRunEnd(text, e + 2)
       ELSE e

\* The greedy match of [0-9]+(?:\.[0-9]+)? at i: its last index, 0 when
\* the pattern does not match at i.
NumEnd(text, i) == NumEndAfter(text, i, DigitRunEnd(text, i))

\* The index after the run of whitespace that starts at i (\s*).
RECURSIVE SkipWs(_, _)
SkipWs(text, i) ==
  IF i <= Len(text) /\ text[i] \in Whitespace THEN SkipWs(text, i + 1) ELSE i

RECURSIVE DigitsToNat(_)
DigitsToNat(ds) ==
  IF Len(ds) = 0 THEN 0
  ELSE 10 * DigitsToNat(SubSeq(ds, 1, Len(ds) - 1)) + DigitVal(ds[Len(ds)])

RECURSIVE NatToDigits(_)
NatToDigits(n) ==
  IF n < 10 THEN <<DigitChar(n)>>
  ELSE NatToDigits(n \div 10) \o <<DigitChar(n % 10)>>

\* float(numtext) in units of 1/Scale, numtext a match of [0-9]+(?:\.[0-9]+)?
float(numtext) ==
  LET e == DigitRunEnd(numtext, 1)
      frac == SubSeq(numtext, e + 2, Len(numtext))
      f(k) == IF k <= Len(frac) THEN DigitVal(frac[k]) ELSE 0
  IN DigitsToNat(SubSeq(numtext, 1, e)) * Scale
       + f(1) * 1000 + f(2) * 100 + f(3) * 10 + f(4)

\* text.rstrip(c) for one character c
RECURSIVE rstripChar(_, _)
rstripChar(text, c) ==
  IF Len(text) > 0 /\ text[Len(text)] = c
  THEN rstripChar(SubSeq(text, 1, Len(text) - 1), c) ELSE text

\* The four fraction digits of v.
FracDigits(v) ==
  LET m == v % Scale
  IN <<DigitChar(m \div 1000), DigitChar((m \div 100) % 10),
       DigitChar((m \div 10) % 10), DigitChar(m % 10)>>

\* f"{v:g}" for v >= 0 (at most six significant digits)
FormatG(v) ==
  IF v % Scale = 0 THEN NatToDigits(v \div Scale)
  ELSE NatToDigits(v \div Scale) \o <<".">> \o rstripChar(FracDigits(v), "0")

\* str(v) for a float v >= 0
FloatStr(v) ==
  IF v % Scale = 0 THEN NatToDigits(v \div Scale) \o <<".", "0">>
  ELSE NatToDigits(v \div Scale) \o <<".">> \o rstripChar(FracDigits(v), "0")

\* Python None where a str is optional: no str equals it.
None == <<"None">>

\* bool(x) for an Optional[str]
Truthy(x) == x # None /\ Len(x) > 0

\* f"{x}" for an Optional[str]
Fmt(x) == IF x = None THEN <<"N", "o", "n", "e">> ELSE x

\* x or y
Or(x, y) == IF Truthy(x) THEN x ELSE y

(***************************************************************************)
(* The tables of the source, in the order the source writes them (a dict   *)
(* iterates in insertion order).                                           *)
(***************************************************************************)
Trace == <<"u5c11", "u3005">>  \* 少々: the trace amount
ToTaste == <<"u9069", "u91cf">>  \* 適量: to taste
Tbsp == <<"u5927", "u3055", "u3058">>  \* 大さじ: tablespoon
Tsp == <<"u5c0f", "u3055", "u3058">>  \* 小さじ: teaspoon
Gram == <<"u30b0", "u30e9", "u30e0">>  \* グラム: gram
Ko == <<"u500b">>  \* 個: piece
Hen == <<"u7247">>  \* 片: clove
Mai == <<"u679a">>  \* 枚: sheet
Hon == <<"u672c">>  \* 本: stick
Cup == <<"u30ab", "u30c3", "u30d7">>  \* カップ: cup
SqKg == <<"u338f">>  \* ㎏: the one-character kg
FwDot == <<"uff0e">>  \* ．: the full-width full stop
TraceForAdults == <<"u5c11", "u3005", "uff08", "u5927", "u4eba", "u306f", "u5f8c", "u304c", "u3051", "uff09">>  \* 少々（大人は後がけ）: a trace, adults add it afterwards

\* grams per serving
PROTEIN_G_PER_SERV == <<
  [key |-> <<"u9d8f", "u3080", "u306d", "u8089">>, g |-> 100],  \* 鶏むね肉: 100
  [key |-> <<"u9d8f", "u3082", "u3082", "u8089">>, g |-> 100],  \* 鶏もも肉: 100
  [key |-> <<"u8c5a", "u8089">>, g |-> 100],  \* 豚肉: 100
  [key |-> <<"u725b", "u8089">>, g |-> 100],  \* 牛肉: 100
  [key |-> <<"u3072", "u304d", "u8089">>, g |-> 100],  \* ひき肉: 100
  [key |-> <<"u9bad">>, g |-> 90],  \* 鮭: 90
  [key |-> <<"u3055", "u3070">>, g |-> 90],  \* さば: 90
  [key |-> <<"u30c4", "u30ca">>, g |-> 70],  \* ツナ: 70
  [key |-> <<"u30d9", "u30fc", "u30b3", "u30f3">>, g |-> 30],  \* ベーコン: 30
  [key |-> <<"u30cf", "u30e0">>, g |-> 30],  \* ハム: 30
  [key |-> <<"u8c46", "u8150">>, g |-> 150],  \* 豆腐: 150
  [key |-> <<"u6728", "u7dbf", "u8c46", "u8150">>, g |-> 150],  \* 木綿豆腐: 150
  [key |-> <<"u7d79", "u3054", "u3057", "u8c46", "u8150">>, g |-> 150],  \* 絹ごし豆腐: 150
  [key |-> <<"u5375">>, g |-> 50]  \* 卵: 50
>>

\* grams per serving
VEG_G_PER_SERV == <<
  [key |-> <<"u7389", "u306d", "u304e">>, g |-> 50],  \* 玉ねぎ: 50
  [key |-> <<"u306d", "u304e">>, g |-> 10],  \* ねぎ: 10
  [key |-> <<"u9577", "u306d", "u304e">>, g |-> 20],  \* 長ねぎ: 20
  [key |-> <<"u30ad", "u30e3", "u30d9", "u30c4">>, g |-> 80],  \* キャベツ: 80
  [key |-> <<"u306b", "u3093", "u3058", "u3093">>, g |-> 40],  \* にんじん: 40
  [key |-> <<"u3058", "u3083", "u304c", "u3044", "u3082">>, g |-> 80],  \* じゃがいも: 80
  [key |-> <<"u306a", "u3059">>, g |-> 60],  \* なす: 60
  [key |-> <<"u30d4", "u30fc", "u30de", "u30f3">>, g |-> 40],  \* ピーマン: 40
  [key |-> <<"u3082", "u3084", "u3057">>, g |-> 100],  \* もやし: 100
  [key |-> <<"u30d6", "u30ed", "u30c3", "u30b3", "u30ea", "u30fc">>, g |-> 70],  \* ブロッコリー: 70
  [key |-> <<"u304d", "u306e", "u3053">>, g |-> 60],  \* きのこ: 60
  [key |-> <<"u3057", "u3081", "u3058">>, g |-> 60],  \* しめじ: 60
  [key |-> <<"u3048", "u306e", "u304d">>, g |-> 60],  \* えのき: 60
  [key |-> <<"u30c8", "u30de", "u30c8">>, g |-> 80],  \* トマト: 80
  [key |-> <<"u9752", "u83dc">>, g |-> 70],  \* 青菜: 70
  [key |-> <<"u5c0f", "u677e", "u83dc">>, g |-> 70],  \* 小松菜: 70
  [key |-> <<"u307b", "u3046", "u308c", "u3093", "u8349">>, g |-> 70]  \* ほうれん草: 70
>>

\* teaspoons per serving, in units of 1/Scale
COND_TSP_PER_SERV == <<
  [key |-> <<"u5869">>, tsp |-> 1250],  \* 塩: 0.125
  [key |-> <<"u7802", "u7cd6">>, tsp |-> 5000],  \* 砂糖: 0.5
  [key |-> <<"u3057", "u3087", "u3046", "u3086">>, tsp |-> 10000],  \* しょうゆ: 1.0
  [key |-> <<"u91a4", "u6cb9">>, tsp |-> 10000],  \* 醤油: 1.0
  [key |-> <<"u307f", "u308a", "u3093">>, tsp |-> 10000],  \* みりん: 1.0
  [key |-> <<"u9152">>, tsp |-> 10000],  \* 酒: 1.0
  [key |-> <<"u9162">>, tsp |-> 10000],  \* 酢: 1.0
  [key |-> <<"u30b3", "u30c1", "u30e5", "u30b8", "u30e3", "u30f3">>, tsp |-> 5000],  \* コチュジャン: 0.5
  [key |-> <<"u5473", "u564c">>, tsp |-> 15000],  \* 味噌: 1.5
  [key |-> <<"u5473", "u306e", "u7d20">>, tsp |-> 2500],  \* 味の素: 0.25
  [key |-> <<"u9846", "u7c92", "u3060", "u3057">>, tsp |-> 5000]  \* 顆粒だし: 0.5
>>

\* teaspoons per serving, in units of 1/Scale
OIL_TSP_PER_SERV == <<
  [key |-> <<"u30b5", "u30e9", "u30c0", "u6cb9">>, tsp |-> 10000],  \* サラダ油: 1.0
  [key |-> <<"u3054", "u307e", "u6cb9">>, tsp |-> 5000],  \* ごま油: 0.5
  [key |-> <<"u30aa", "u30ea", "u30fc", "u30d6", "u30aa", "u30a4", "u30eb">>, tsp |-> 10000]  \* オリーブオイル: 1.0
>>

\* pieces per serving, as display text
PIECE_PER_SERV == <<
  [key |-> <<"u5375">>, per |-> <<"1", "u500b">>],  \* 卵: 1個
  [key |-> <<"u306b", "u3093", "u306b", "u304f">>, per |-> <<"0", ".", "5", "u7247">>],  \* にんにく: 0.5片
  [key |-> <<"u751f", "u59dc">>, per |-> <<"0", ".", "5", "u7247">>]  \* 生姜: 0.5片
>>

SPICY_WORDS == <<
  <<"u4e00", "u5473">>,  \* 一味
  <<"u4e03", "u5473">>,  \* 七味
  <<"u8c46", "u677f", "u91a4">>,  \* 豆板醤
  <<"u30b3", "u30c1", "u30e5", "u30b8", "u30e3", "u30f3">>,  \* コチュジャン
  <<"u30e9", "u30fc", "u6cb9">>,  \* ラー油
  <<"u5510", "u8f9b", "u5b50">>,  \* 唐辛子
  <<"u7c89", "u5510", "u8f9b", "u5b50">>  \* 粉唐辛子
>>

\* A table of seasonings that counts 梅肉 (pickled plum paste) among them.
SEASONINGS_WITH_UME == <<
  <<"u6885", "u8089">>  \* 梅肉
>>

HEAT_WORDS == <<
  <<"u5f31", "u706b">>,  \* 弱火
  <<"u4e2d", "u706b">>,  \* 中火
  <<"u5f37", "u706b">>,  \* 強火
  <<"u6cb8", "u9a30">>,  \* 沸騰
  <<"u4f59", "u71b1">>,  \* 余熱
  <<"u30ec", "u30f3", "u30b8">>,  \* レンジ
  <<"6", "0", "0", "W">>,  \* 600W
  <<"5", "0", "0", "W">>  \* 500W
>>

SEASONINGS == <<
  <<"u5869">>,  \* 塩
  <<"u7802", "u7cd6">>,  \* 砂糖
  <<"u3057", "u3087", "u3046", "u3086">>,  \* しょうゆ
  <<"u91a4", "u6cb9">>,  \* 醤油
  <<"u307f", "u308a", "u3093">>,  \* みりん
  <<"u9152">>,  \* 酒
  <<"u5473", "u564c">>,  \* 味噌
  <<"u9162">>,  \* 酢
  <<"u3054", "u307e", "u6cb9">>,  \* ごま油
  <<"u30aa", "u30ea", "u30fc", "u30d6", "u30aa", "u30a4", "u30eb">>,  \* オリーブオイル
  <<"u30d0", "u30bf", "u30fc">>,  \* バター
  <<"u3060", "u3057">>  \* だし
>>

PROTEIN_ROTATION_DEFAULT == <<
  <<"u9d8f", "u3080", "u306d", "u8089">>,  \* 鶏むね肉
  <<"u8c5a", "u8089">>,  \* 豚肉
  <<"u8c46", "u8150">>,  \* 豆腐
  <<"u9bad">>,  \* 鮭
  <<"u9d8f", "u3082", "u3082", "u8089">>,  \* 鶏もも肉
  <<"u5375">>,  \* 卵
  <<"u3055", "u3070">>  \* さば
>>

PROTEIN_ROTATION_CHEAP == <<
  <<"u9d8f", "u3080", "u306d", "u8089">>,  \* 鶏むね肉
  <<"u8c46", "u8150">>,  \* 豆腐
  <<"u5375">>,  \* 卵
  <<"u8c5a", "u8089">>,  \* 豚肉
  <<"u3082", "u3084", "u3057", "u5165", "u308a">>,  \* もやし入り
  <<"u9d8f", "u3080", "u306d", "u8089">>,  \* 鶏むね肉
  <<"u8c46", "u8150">>  \* 豆腐
>>

CONDIMENT_KEYS == <<
  <<"u5869">>,  \* 塩
  <<"u7802", "u7cd6">>,  \* 砂糖
  <<"u3057", "u3087", "u3046", "u3086">>,  \* しょうゆ
  <<"u91a4", "u6cb9">>,  \* 醤油
  <<"u307f", "u308a", "u3093">>,  \* みりん
  <<"u9152">>,  \* 酒
  <<"u5473", "u564c">>,  \* 味噌
  <<"u9162">>,  \* 酢
  <<"u3054", "u307e", "u6cb9">>,  \* ごま油
  <<"u30aa", "u30ea", "u30fc", "u30d6", "u30aa", "u30a4", "u30eb">>,  \* オリーブオイル
  <<"u6cb9">>,  \* 油
  <<"u30d0", "u30bf", "u30fc">>,  \* バター
  <<"u3060", "u3057">>,  \* だし
  <<"u9846", "u7c92", "u3060", "u3057">>  \* 顆粒だし
>>

TRACE_ONLY_WORDS == <<
  <<"u80e1", "u6912">>,  \* 胡椒
  <<"u3053", "u3057", "u3087", "u3046">>,  \* こしょう
  <<"u9ed2", "u80e1", "u6912">>,  \* 黒胡椒
  <<"u4e00", "u5473">>,  \* 一味
  <<"u4e03", "u5473">>,  \* 七味
  <<"u30e9", "u30fc", "u6cb9">>  \* ラー油
>>

\* nutrition per reference unit in tenths; price in yen per reference unit (ref);
\* piece_g is 0 where the record has none
FOODS == <<
  \* 鶏むね肉
  [key |-> <<"u9d8f", "u3080", "u306d", "u8089">>,
   kcal |-> 1200, protein_g |-> 230, fat_g |-> 20, carb_g |-> 0, salt_g |-> 0,
   ref |-> "yen_per_100g", yen |-> 68, piece_g |-> 0],
  \* 鶏もも肉
  [key |-> <<"u9d8f", "u3082", "u3082", "u8089">>,
   kcal |-> 2000, protein_g |-> 170, fat_g |-> 140, carb_g |-> 0, salt_g |-> 0,
   ref |-> "yen_per_100g", yen |-> 98, piece_g |-> 0],
  \* 豚肉
  [key |-> <<"u8c5a", "u8089">>,
   kcal |-> 2420, protein_g |-> 200, fat_g |-> 190, carb_g |-> 0, salt_g |-> 0,
   ref |-> "yen_per_100g", yen |-> 128, piece_g |-> 0],
  \* 牛肉
  [key |-> <<"u725b", "u8089">>,
   kcal |-> 2500, protein_g |-> 200, fat_g |-> 190, carb_g |-> 0, salt_g |-> 0,
   ref |-> "yen_per_100g", yen |-> 198, piece_g |-> 0],
  \* ひき肉
  [key |-> <<"u3072", "u304d", "u8089">>,
   kcal |-> 2300, protein_g |-> 190, fat_g |-> 170, carb_g |-> 0, salt_g |-> 0,
   ref |-> "yen_per_100g", yen |-> 118, piece_g |-> 0],
  \* 鮭
  [key |-> <<"u9bad">>,
   kcal |-> 2000, protein_g |-> 220, fat_g |-> 120, carb_g |-> 0, salt_g |-> 0,
   ref |-> "yen_per_100g", yen |-> 198, piece_g |-> 0],
  \* さば
  [key |-> <<"u3055", "u3070">>,
   kcal |-> 2400, protein_g |-> 200, fat_g |-> 190, carb_g |-> 0, salt_g |-> 0,
   ref |-> "yen_per_100g", yen |-> 158, piece_g |-> 0],
  \* 木綿豆腐
  [key |-> <<"u6728", "u7dbf", "u8c46", "u8150">>,
   kcal |-> 720, protein_g |-> 70, fat_g |-> 40, carb_g |-> 20, salt_g |-> 0,
   ref |-> "yen_per_piece", yen |-> 62, piece_g |-> 300],
  \* 絹ごし豆腐
  [key |-> <<"u7d79", "u3054", "u3057", "u8c46", "u8150">>,
   kcal |-> 560, protein_g |-> 50, fat_g |-> 30, carb_g |-> 20, salt_g |-> 0,
   ref |-> "yen_per_piece", yen |-> 62, piece_g |-> 300],
  \* 卵
  [key |-> <<"u5375">>,
   kcal |-> 1500, protein_g |-> 120, fat_g |-> 100, carb_g |-> 0, salt_g |-> 0,
   ref |-> "yen_per_piece", yen |-> 25, piece_g |-> 50],
  \* キャベツ
  [key |-> <<"u30ad", "u30e3", "u30d9", "u30c4">>,
   kcal |-> 230, protein_g |-> 10, fat_g |-> 0, carb_g |-> 50, salt_g |-> 0,
   ref |-> "yen_per_100g", yen |-> 25, piece_g |-> 0],
  \* 玉ねぎ
  [key |-> <<"u7389", "u306d", "u304e">>,
   kcal |-> 370, protein_g |-> 10, fat_g |-> 0, carb_g |-> 90, salt_g |-> 0,
   ref |-> "yen_per_piece", yen |-> 40, piece_g |-> 180],
  \* にんじん
  [key |-> <<"u306b", "u3093", "u3058", "u3093">>,
   kcal |-> 370, protein_g |-> 10, fat_g |-> 0, carb_g |-> 90, salt_g |-> 0,
   ref |-> "yen_per_100g", yen |-> 28, piece_g |-> 0],
  \* じゃがいも
  [key |-> <<"u3058", "u3083", "u304c", "u3044", "u3082">>,
   kcal |-> 760, protein_g |-> 20, fat_g |-> 0, carb_g |-> 170, salt_g |-> 0,
   ref |-> "yen_per_100g", yen |-> 25, piece_g |-> 0],
  \* なす
  [key |-> <<"u306a", "u3059">>,
   kcal |-> 220, protein_g |-> 10, fat_g |-> 0, carb_g |-> 50, salt_g |-> 0,
   ref |-> "yen_per_100g", yen |-> 40, piece_g |-> 0],
  \* もやし
  [key |-> <<"u3082", "u3084", "u3057">>,
   kcal |-> 140, protein_g |-> 20, fat_g |-> 0, carb_g |-> 30, salt_g |-> 0,
   ref |-> "yen_per_100g", yen |-> 20, piece_g |-> 0],
  \* しょうゆ
  [key |-> <<"u3057", "u3087", "u3046", "u3086">>,
   kcal |-> 130, protein_g |-> 14, fat_g |-> 0, carb_g |-> 12, salt_g |-> 26,
   ref |-> "yen_per_tbsp", yen |-> 10, piece_g |-> 0],
  \* みりん
  [key |-> <<"u307f", "u308a", "u3093">>,
   kcal |-> 430, protein_g |-> 0, fat_g |-> 0, carb_g |-> 72, salt_g |-> 0,
   ref |-> "yen_per_tbsp", yen |-> 10, piece_g |-> 0],
  \* 酒
  [key |-> <<"u9152">>,
   kcal |-> 110, protein_g |-> 0, fat_g |-> 0, carb_g |-> 5, salt_g |-> 0,
   ref |-> "yen_per_tbsp", yen |-> 8, piece_g |-> 0],
  \* 砂糖
  [key |-> <<"u7802", "u7cd6">>,
   kcal |-> 350, protein_g |-> 0, fat_g |-> 0, carb_g |-> 90, salt_g |-> 0,
   ref |-> "yen_per_tbsp", yen |-> 5, piece_g |-> 0],
  \* 味噌
  [key |-> <<"u5473", "u564c">>,
   kcal |-> 330, protein_g |-> 20, fat_g |-> 10, carb_g |-> 40, salt_g |-> 9,
   ref |-> "yen_per_tbsp", yen |-> 15, piece_g |-> 0],
  \* ごま油
  [key |-> <<"u3054", "u307e", "u6cb9">>,
   kcal |-> 1110, protein_g |-> 0, fat_g |-> 126, carb_g |-> 0, salt_g |-> 0,
   ref |-> "yen_per_tbsp", yen |-> 18, piece_g |-> 0],
  \* オリーブオイル
  [key |-> <<"u30aa", "u30ea", "u30fc", "u30d6", "u30aa", "u30a4", "u30eb">>,
   kcal |-> 1110, protein_g |-> 0, fat_g |-> 126, carb_g |-> 0, salt_g |-> 0,
   ref |-> "yen_per_tbsp", yen |-> 20, piece_g |-> 0],
  \* 塩
  [key |-> <<"u5869">>,
   kcal |-> 0, protein_g |-> 0, fat_g |-> 0, carb_g |-> 0, salt_g |-> 60,
   ref |-> "yen_per_tsp", yen |-> 2, piece_g |-> 0]
>>

(***************************************************************************)
(* Quantity normaliser                                                     *)
(***************************************************************************)
\* _has_number: _num_re finds a number in s
_has_number(s) == \E i \in 1..Len(Or(s, <<>>)) : NumEnd(Or(s, <<>>), i) > 0

\* _round_tsp_to_pretty(tsp), tsp in units of 1/Scale
_round_tsp_to_pretty(tsp) ==
  IF 100 * tsp <= 15 * Scale THEN Trace
  ELSE IF tsp >= 3 * Scale
       THEN Tbsp \o FormatG(round(2 * tsp, 3 * Scale) * (Scale \div 2))
       ELSE Tsp \o FormatG(round(2 * tsp, Scale) * (Scale \div 2))

\* _grams_to_pretty(g), g an int
_grams_to_pretty(g) ==
  LET step == IF g < 60 THEN 10 ELSE IF g < 150 THEN 25 ELSE 50
  IN NatToDigits(round(g, step) * step) \o <<"g">>

\* The index of the first entry of table whose key is in name; 0 when no
\* key is.
FirstKey(table, name) ==
  IF \E n \in 1..Len(table) : In(table[n].key, name)
  THEN CHOOSE n \in 1..Len(table) :
         /\ In(table[n].key, name)
         /\ \A m \in 1..(n - 1) : ~In(table[m].key, name)
  ELSE 0

\* The first match of _num_re in text: <<first index, last index>>,
\* <<0, 0>> when there is none.
NumSearch(text) ==
  IF \E i \in 1..Len(text) : text[i] \in Digit
  THEN LET i == CHOOSE i \in 1..Len(text) :
                  text[i] \in Digit /\ \A k \in 1..(i - 1) : text[k] \notin Digit
       IN <<i, NumEnd(text, i)>>
  ELSE <<0, 0>>

\* The piece branch of _guess_amount once num is known: the total and the
\* unit, which is per without the text of num.
PieceTotal(per, num, servings) ==
  (IF (num * servings) % Scale = 0
   THEN NatToDigits((num * servings) \div Scale)
   ELSE FormatG(num * servings))
    \o replace(per, rstripChar(rstripChar(FloatStr(num), "0"), "."), <<>>)

\* num of the piece branch, m the match of _num_re in per
PieceNum(per, m) == IF m[1] > 0 THEN float(SubSeq(per, m[1], m[2])) ELSE Scale

\* The piece branch of _guess_amount, per the amount for one serving.
PieceAmount(per, servings) == PieceTotal(per, PieceNum(per, NumSearch(per)), servings)

\* _guess_amount with the table of the proteins searched before that of
\* the pieces.
GuessFromProteinFirst(name, servings, kPiece, kProt, kVeg, kOil, kCond) ==
  IF kProt > 0 THEN _grams_to_pretty(PROTEIN_G_PER_SERV[kProt].g * servings)
  ELSE IF kPiece > 0 THEN PieceAmount(PIECE_PER_SERV[kPiece].per, servings)
  ELSE IF kVeg > 0 THEN _grams_to_pretty(VEG_G_PER_SERV[kVeg].g * servings)
  ELSE IF kOil > 0 THEN _round_tsp_to_pretty(OIL_TSP_PER_SERV[kOil].tsp * servings)
  ELSE IF kCond > 0 THEN _round_tsp_to_pretty(COND_TSP_PER_SERV[kCond].tsp * servings)
  ELSE IF AnyIn(TRACE_ONLY_WORDS, name) THEN Trace
  ELSE ToTaste

\* _guess_amount once the tables are searched: each k is the index of the
\* first key of its table in name, 0 when there is none.
GuessFrom(name, servings, kPiece, kProt, kVeg, kOil, kCond) ==
  IF kPiece > 0 THEN PieceAmount(PIECE_PER_SERV[kPiece].per, servings)
  ELSE IF kProt > 0 THEN _grams_to_pretty(PROTEIN_G_PER_SERV[kProt].g * servings)
  ELSE IF kVeg > 0 THEN _grams_to_pretty(VEG_G_PER_SERV[kVeg].g * servings)
  ELSE IF kOil > 0 THEN _round_tsp_to_pretty(OIL_TSP_PER_SERV[kOil].tsp * servings)
  ELSE IF kCond > 0 THEN _round_tsp_to_pretty(COND_TSP_PER_SERV[kCond].tsp * servings)
  ELSE IF AnyIn(TRACE_ONLY_WORDS, name) THEN Trace
  ELSE ToTaste

\* _guess_amount(name, servings)
_guess_amount(name, servings) ==
  GuessFrom(name, servings,
            FirstKey(PIECE_PER_SERV, name), FirstKey(PROTEIN_G_PER_SERV, name),
            FirstKey(VEG_G_PER_SERV, name), FirstKey(OIL_TSP_PER_SERV, name),
            FirstKey(COND_TSP_PER_SERV, name))

\* The unit markers of _QTY_IN_NAME_RE, in the order of its alternation.
QTY_UNITS == <<
  <<"g">>, Gram, <<"k", "g">>, SqKg, <<"m", "l">>, <<"m", "L">>, <<"L">>,
  <<"c", "c">>, Cup, <<"c", "u", "p">>, Ko, Hen, Mai, Hon
>>

\* (?=\s|$) at index i
QtyLookahead(text, i) == i > Len(text) \/ text[i] \in Whitespace

\* The unit QTY_UNITS[n] at index us, followed by whitespace or the end.
QtyUnitAt(text, us, n) ==
  StartsAt(QTY_UNITS[n], text, us) /\ QtyLookahead(text, us + Len(QTY_UNITS[n]))

\* The last index of the first unit of the alternation that matches at us,
\* 0 when none does.
QtyUnitEnd(text, us) ==
  IF \E n \in 1..Len(QTY_UNITS) : QtyUnitAt(text, us, n)
  THEN us - 1 + Len(QTY_UNITS[CHOOSE n \in 1..Len(QTY_UNITS) :
                                 /\ QtyUnitAt(text, us, n)
                                 /\ \A m \in 1..(n - 1) : ~QtyUnitAt(text, us, m)])
  ELSE 0

\* The number after a spoon marker, ending at ne (0: no number), followed
\* by whitespace or the end.
QtySpoonEnd(text, ne) == IF ne > 0 /\ QtyLookahead(text, ne + 1) THEN ne ELSE 0

\* The group of _QTY_IN_NAME_RE tried at index s: the last index of the
\* quantity token that starts at s and is followed by whitespace or the
\* end, 0 when there is none.
QtyGroupEnd(text, s) ==
  IF StartsAt(Tbsp, text, s) \/ StartsAt(Tsp, text, s)
  THEN QtySpoonEnd(text, NumEnd(text, SkipWs(text, s + Len(Tbsp))))
  ELSE IF NumEnd(text, s) > 0
       THEN QtyUnitEnd(text, SkipWs(text, NumEnd(text, s) + 1))
  ELSE IF StartsAt(Trace, text, s) /\ QtyLookahead(text, s + Len(Trace))
       THEN s + Len(Trace) - 1
  ELSE IF StartsAt(ToTaste, text, s) /\ QtyLookahead(text, s + Len(ToTaste))
       THEN s + Len(ToTaste) - 1
  ELSE 0

\* The group that starts at s and ends at e, <<0, 0>> when e is 0.
QtyGroup(s, e) == IF e > 0 THEN <<s, e>> ELSE <<0, 0>>

\* The first of two tries that matched.
FirstMatch(m1, m2) == IF m1[1] > 0 THEN m1 ELSE m2

\* _QTY_IN_NAME_RE matched at index i: <<group start, group end>>, with
\* (?:^|\s) before the group; <<0, 0>> when it does not match at i.
QtyMatchAt(text, i) ==
  FirstMatch(IF i = 1 THEN QtyGroup(1, QtyGroupEnd(text, 1)) ELSE <<0, 0>>,
             IF i <= Len(text) /\ text[i] \in Whitespace
             THEN QtyGroup(i + 1, QtyGroupEnd(text, i + 1)) ELSE <<0, 0>>)

\* _QTY_IN_NAME_RE.search(text) from index i on: <<match start, group
\* start, group end>>, <<0, 0, 0>> when there is no match.
RECURSIVE QtySearch(_, _)

\* The search at i, m the match tried there.
QtySearchAt(text, i, m) ==
  IF m[1] > 0 THEN <<i, m[1], m[2]>> ELSE QtySearch(text, i + 1)

QtySearch(text, i) ==
  IF i > Len(text) THEN <<0, 0, 0>> ELSE QtySearchAt(text, i, QtyMatchAt(text, i))

\* _QTY_IN_NAME_RE.sub(" ", text), from index i on
RECURSIVE QtySub(_, _)

\* The substitution from i on, m the next match.
QtySubAt(text, i, m) ==
  IF m[1] = 0 THEN SubSeq(text, i, Len(text))
  ELSE SubSeq(text, i, m[1] - 1) \o <<" ">> \o QtySub(text, m[3] + 1)

QtySub(text, i) == QtySubAt(text, i, QtySearch(text, i))

\* re.sub(r'\s{2,}', ' ', text)
RECURSIVE CollapseWs(_)
CollapseWs(text) ==
  IF Len(text) = 0 THEN <<>>
  ELSE IF text[1] \in Whitespace /\ SkipWs(text, 1) > 2
       THEN <<" ">> \o CollapseWs(SubSeq(text, SkipWs(text, 1), Len(text)))
       ELSE <<text[1]>> \o CollapseWs(Tail(text))

\* The return of split_quantity_from_name: m the first match in txt, base
\* txt with every match taken out.
SplitAt(txt, m, base) ==
  <<Or(base, txt), IF m[1] > 0 THEN SubSeq(txt, m[2], m[3]) ELSE None>>

\* split_quantity_from_name on txt = name or ""
SplitName(txt) == SplitAt(txt, QtySearch(txt, 1), CollapseWs(strip(QtySub(txt, 1))))

\* split_quantity_from_name(name): <<base, qty>>
split_quantity_from_name(name) == SplitName(Or(name, <<>>))

\* The zero quantities sanitize_amount turns into the trace amount.
ZERO_AMOUNTS == {
  Tsp \o <<"0">>, Tbsp \o <<"0">>, <<"0", "g">>, <<"0">> \o Ko, <<"0">> \o Hen,
  <<"0">> \o Mai, <<"0">> \o Hon, <<"0", "c", "c">>
}

\* if a in {...}: return "少々"
ZeroToTrace(a) == IF a \in ZERO_AMOUNTS THEN Trace ELSE a

\* sanitize_amount(amount)
sanitize_amount(amount) ==
  IF ~Truthy(amount) THEN None
  ELSE ZeroToTrace(replace(replace(strip(amount), FwDot, <<".">>), <<".", "0">>, <<>>))

\* The least element of the set S of integers, which is not empty.
Least(S) == CHOOSE x \in S : \A y \in S : x <= y

\* float() of the number that starts at index s of text
NumberAt(text, s) == float(SubSeq(text, s, NumEnd(text, s)))

\* The number of the leftmost of the matches that start at the indices
\* hits, the number skip characters and then whitespace after the start;
\* -1 when there is no match.
NumberOfFirst(text, hits, skip) ==
  IF hits = {} THEN -1 ELSE NumberAt(text, SkipWs(text, Least(hits) + skip))

\* re.search of marker \s* number in text: the value of the number of the
\* leftmost match, -1 when there is none.
SpoonSearch(text, marker) ==
  NumberOfFirst(text, {i \in 1..Len(text) :
                         /\ StartsAt(marker, text, i)
                         /\ NumEnd(text, SkipWs(text, i + Len(marker))) > 0},
                Len(marker))

\* re.search of number \s* (one of units) in text: the value of the number
\* of the leftmost match, -1 when there is none.
UnitSearch(text, units) ==
  NumberOfFirst(text, {i \in 1..Len(text) :
                         /\ NumEnd(text, i) > 0
                         /\ \E n \in 1..Len(units) :
                              StartsAt(units[n], text, SkipWs(text, NumEnd(text, i) + 1))},
                0)

\* The first of the four searches of amount_to_unit_value that matched;
\* each argument is the number found, -1 when its search found none.
UnitValueFrom(tbsp, tsp, g, piece) ==
  IF tbsp >= 0 THEN <<"tbsp", tbsp>>
  ELSE IF tsp >= 0 THEN <<"tsp", tsp>>
  ELSE IF g >= 0 THEN <<"g", g>>
  ELSE IF piece >= 0 THEN <<"piece", piece>>
  ELSE <<"", 0>>

\* amount_to_unit_value on the cleaned text a
UnitValueOf(a) ==
  UnitValueFrom(SpoonSearch(a, Tbsp), SpoonSearch(a, Tsp),
                UnitSearch(a, <<(<<"g">>)>>), UnitSearch(a, <<Ko>>))

\* amount_to_unit_value(amount): <<unit, value>>
amount_to_unit_value(amount) ==
  IF ~Truthy(amount) THEN <<"", 0>>
  ELSE UnitValueOf(lower(strip(replace(amount, FwDot, <<".">>))))

\* unit_value_to_amount(u, v)
unit_value_to_amount(u, v) ==
  IF u = "tbsp"
  THEN IF round(2 * v, Scale) <= 0 THEN Trace
       ELSE Tbsp \o FormatG(round(2 * v, Scale) * (Scale \div 2))
  ELSE IF u = "tsp"
  THEN IF round(2 * v, Scale) <= 0 THEN Trace
       ELSE Tsp \o FormatG(round(2 * v, Scale) * (Scale \div 2))
  ELSE IF u = "g"
  THEN IF v <= 0 THEN Trace ELSE _grams_to_pretty(round(v, Scale))
  ELSE IF u = "piece"
  THEN IF v % Scale = 0 THEN NatToDigits(v \div Scale) \o Ko ELSE FormatG(v) \o Ko
  ELSE Or(sanitize_amount(FloatStr(v)), ToTaste)

\* is_condiment(name)
is_condiment(name) == AnyIn(CONDIMENT_KEYS, name)

\* is_spicy(name)
is_spicy(name) == AnyIn(SPICY_WORDS, name)

\* The amount of a condiment for a child: uv = <<u, v>> the unit and the
\* value of amount, scaled when the unit is a spoon or the gram.
ScaledAmount(amount, uv, factor) ==
  IF uv[1] \in {"tbsp", "tsp", "g"}
  THEN unit_value_to_amount(uv[1], (uv[2] * factor) \div 10)
  ELSE amount

\* adjust_child_friendly_amount(name, amount, factor), factor in tenths
adjust_child_friendly_amount(name, amount, factor) ==
  IF ~Truthy(amount) THEN amount
  ELSE IF is_spicy(name) THEN TraceForAdults
  ELSE IF is_condiment(name)
       THEN ScaledAmount(amount, amount_to_unit_value(amount), factor)
  ELSE amount

\* if child_mode: amt = adjust_child_friendly_amount(base_name, amt, ...)
ChildAmount(base_name, amt, child_mode, child_factor) ==
  IF child_mode THEN adjust_child_friendly_amount(base_name, amt, child_factor)
  ELSE amt

\* The amount guessed when amt is empty, to taste, or neither a number nor
\* the trace amount.
GuessedAmount(base_name, amt, servings) ==
  IF \/ ~Truthy(amt)
     \/ In(ToTaste, amt)
     \/ (~_has_number(amt) /\ ~In(Trace, amt))
  THEN _guess_amount(base_name, servings)
  ELSE amt

\* One turn of the loop of normalize_ingredients once the name is split
\* into sq = <<base_name, qty_in_name>>.
NormalizeSplit(it, sq, servings, child_mode, child_factor) ==
  [name |-> sq[1],
   amount |->
     ChildAmount(sq[1],
                 Or(sanitize_amount(
                      GuessedAmount(sq[1],
                                    Or(Or(sanitize_amount(it.amount), sq[2]), <<>>),
                                    servings)),
                    ToTaste),
                 child_mode, child_factor),
   is_optional |-> it.is_optional, substitution |-> it.substitution]

\* One turn of the loop of normalize_ingredients, on the ingredient it.
NormalizeOne(it, servings, child_mode, child_factor) ==
  NormalizeSplit(it, split_quantity_from_name(it.name), servings, child_mode,
                 child_factor)

\* normalize_ingredients(ings, servings, child_mode, child_factor)
normalize_ingredients(ings, servings, child_mode, child_factor) ==
  [n \in 1..Len(ings) |-> NormalizeOne(ings[n], servings, child_mode, child_factor)]

(***************************************************************************)
(* Quality gate                                                            *)
(***************************************************************************)
\* The warnings of quality_check, in the order the checks run.
QualityWarns(rec) ==
  LET step_text == join(<<"u3002">>, [n \in 1..Len(rec.steps) |-> rec.steps[n].text])
      ing_txt == join(<<"u3001">>,
                      [n \in 1..Len(rec.ingredients) |->
                         Fmt(rec.ingredients[n].name) \o <<" ">>
                           \o Fmt(rec.ingredients[n].amount)])
      w1 == IF Len(rec.ingredients) < 3 THEN <<"few_ingredients">> ELSE <<>>
      w2 == IF Len(rec.steps) < 3 THEN <<"few_steps">> ELSE <<>>
      w3 == IF ~AnyIn(HEAT_WORDS, step_text) THEN <<"no_heat">> ELSE <<>>
      w4 == IF ~AnyIn(SEASONINGS, ing_txt) THEN <<"no_seasoning">> ELSE <<>>
      w5 == IF In(ToTaste, ing_txt) THEN <<"vague_amount">> ELSE <<>>
  IN w1 \o w2 \o w3 \o w4 \o w5

\* return (len(warns) == 0), warns
Verdict(warns) == <<Len(warns) = 0, warns>>

\* quality_check(rec): <<ok, warns>>
quality_check(rec) == Verdict(QualityWarns(rec))

\* _filter_passed_recipes(recs)
_filter_passed_recipes(recs) == SelectSeq(recs, LAMBDA r : quality_check(r)[1])

(***************************************************************************)
(* Cost estimator                                                          *)
(***************************************************************************)
\* The first of the five searches of amount_to_grams_or_spoons that
\* matched; each argument is the number found, -1 when its search found
\* none.  A clove is half a piece.
GramsOrSpoonsFrom(gram, tbsp, tsp, piece, clove) ==
  IF gram >= 0 THEN <<"g", gram>>
  ELSE IF tbsp >= 0 THEN <<"tbsp", tbsp>>
  ELSE IF tsp >= 0 THEN <<"tsp", tsp>>
  ELSE IF piece >= 0 THEN <<"piece", piece>>
  ELSE IF clove >= 0 THEN <<"piece", clove \div 2>>
  ELSE <<"g", 0>>

\* amount_to_grams_or_spoons on the cleaned text a
GramsOrSpoonsOf(a) ==
  GramsOrSpoonsFrom(UnitSearch(a, <<(<<"g">>), Gram>>), SpoonSearch(a, Tbsp),
                    SpoonSearch(a, Tsp), UnitSearch(a, <<Ko>>), UnitSearch(a, <<Hen>>))

\* amount_to_grams_or_spoons(amount): <<unit, value>>
amount_to_grams_or_spoons(amount) ==
  IF ~Truthy(amount) THEN <<"g", 0>>
  ELSE GramsOrSpoonsOf(lower(strip(replace(amount, FwDot, <<".">>))))

\* The floats of the estimator are kept as exact fractions <<n, d>> in
\* lowest terms, n >= 0 and d > 0.
RECURSIVE GCD(_, _)
GCD(a, b) == IF b = 0 THEN a ELSE GCD(b, a % b)

Reduced(n, d, g) == <<n \div g, d \div g>>

Rat(n, d) == Reduced(n, d, GCD(n, d))

RMul(x, y) == Rat(x[1] * y[1], x[2] * y[2])

RAdd(x, y) == Rat(x[1] * y[2] + y[1] * x[2], x[2] * y[2])

\* grams of the yen_per_100g branch: 15 g a tablespoon, 5 g a teaspoon,
\* 50 g a piece
SpoonGrams(unit, val) ==
  IF unit = "tbsp" THEN RMul(Rat(15, 1), val)
  ELSE IF unit = "tsp" THEN RMul(Rat(5, 1), val)
  ELSE RMul(Rat(50, 1), val)

\* The yen of an ingredient of the food meta, val of it in unit.
FoodCost(meta, unit, val, yen, pf) ==
  IF meta.ref = "yen_per_piece"
  THEN IF unit = "piece" THEN RMul(RMul(yen, val), pf)
       ELSE IF unit = "g"
            THEN RMul(RMul(yen, RMul(val, Rat(1, IF meta.piece_g > 0 THEN meta.piece_g
                                                 ELSE 100))), pf)
       ELSE RMul(yen, pf)
  ELSE IF meta.ref = "yen_per_100g"
  THEN IF unit = "g" THEN RMul(RMul(RMul(val, Rat(1, 100)), yen), pf)
       ELSE IF unit \in {"tbsp", "tsp", "piece"}
            THEN RMul(RMul(RMul(SpoonGrams(unit, val), Rat(1, 100)), yen), pf)
       ELSE RMul(yen, pf)
  ELSE IF meta.ref = "yen_per_tbsp"
  THEN IF unit = "tbsp" THEN RMul(RMul(yen, val), pf)
       ELSE IF unit = "tsp" THEN RMul(RMul(yen, RMul(val, Rat(1, 3))), pf)
       ELSE RMul(yen, pf)
  ELSE Rat(0, 1)

\* The yen of an ingredient no key of FOODS is in: 30 yen for 100 g.
UnknownCost(unit, val, pf) ==
  IF unit = "g" THEN RMul(RMul(RMul(val, Rat(1, 100)), Rat(30, 1)), pf)
  ELSE Rat(0, 1)

\* The yen of an ingredient, k the index of the first key of FOODS in its
\* name (0: none), val of it in unit.
CostOf(k, unit, val, pf) ==
  IF k = 0 THEN UnknownCost(unit, val, pf)
  ELSE FoodCost(FOODS[k], unit, val, Rat(FOODS[k].yen, 1), pf)

\* The yen of an ingredient whose amount is uv = <<unit, value>>.
CostOfAmount(k, uv, pf) == CostOf(k, uv[1], Rat(uv[2], Scale), pf)

\* The yen the ingredient ing adds to total in estimate_cost_yen;
\* price_factor in tenths.
IngredientCost(ing, price_factor) ==
  CostOfAmount(FirstKey(FOODS, ing.name),
               amount_to_grams_or_spoons(Or(ing.amount, <<>>)),
               Rat(price_factor, 10))

\* total after the loop of estimate_cost_yen over ings
RECURSIVE SumCost(_, _)
SumCost(ings, price_factor) ==
  IF Len(ings) = 0 THEN Rat(0, 1)
  ELSE RAdd(IngredientCost(ings[1], price_factor), SumCost(Tail(ings), price_factor))

\* int(round(total)) for the fraction total
RoundRat(total) == round(total[1], total[2])

\* estimate_cost_yen(rec, price_factor), price_factor in tenths
estimate_cost_yen(rec, price_factor) ==
  RoundRat(SumCost(rec.ingredients, price_factor))

(***************************************************************************)
(* generate_recipes and the provider                                       *)
(***************************************************************************)
Torimune == <<"u9d8f", "u3080", "u306d", "u8089">>  \* 鶏むね肉: chicken breast
Kyabetsu == <<"u30ad", "u30e3", "u30d9", "u30c4">>  \* キャベツ: cabbage
Kantan == <<"u304b", "u3093", "u305f", "u3093">>  \* かんたん: easy
SimpleStirFryOf == <<"u306e", "u7c21", "u5358", "u7092", "u3081">>  \* の簡単炒め: the title suffix of the fallback of generate_recipes
SimpleStirFry == <<"u304b", "u3093", "u305f", "u3093", "u7092", "u3081">>  \* かんたん炒め: the title of last resort
StirFryOf == <<"u306e", "u7092", "u3081", "u3082", "u306e">>  \* の炒めもの: the title suffix of the fallback of make_day
FallbackStep1 == <<"u6750", "u6599", "u3092", "u98df", "u3079", "u3084", "u3059", "u3044", "u5927", "u304d", "u3055", "u306b", "u5207", "u308b">>  \* 材料を食べやすい大きさに切る
FallbackStep2 == <<"u30d5", "u30e9", "u30a4", "u30d1", "u30f3", "u3067", "u6cb9", "u3092", "u71b1", "u3057", "u3001", "u8089", "u3068", "u91ce", "u83dc", "u3092", "u7092", "u3081", "u308b">>  \* フライパンで油を熱し、肉と野菜を炒める
FallbackStep3 == <<"u3057", "u3087", "u3046", "u3086", "u30fb", "u307f", "u308a", "u3093", "u30fb", "u9152", "u3067", "u5473", "u4ed8", "u3051", "u3057", "u3066", "u5168", "u4f53", "u3092", "u7d61", "u3081", "u308b", "uff08", "u4e2d", "u706b", "uff09">>  \* しょうゆ・みりん・酒で味付けして全体を絡める（中火）
MinimalStep == <<"u6750", "u6599", "u3092", "u5207", "u3063", "u3066", "u7092", "u3081", "u3001", "u8abf", "u5473", "u3059", "u308b", "uff08", "u4e2d", "u706b", "uff09">>  \* 材料を切って炒め、調味する（中火）

\* Ingredient(name=x)
Ingredient(x) == [name |-> x, amount |-> None, is_optional |-> FALSE, substitution |-> None]

\* A candidate the provider can return: passes the quality gate; the dearest.
RecipeBeef ==
  [title |-> <<"u725b", "u8089", "u7092", "u3081">>,  \* 牛肉炒め
   servings |-> 2, total_time_min |-> 20,
   difficulty |-> <<"u3075", "u3064", "u3046">>,  \* ふつう
   ingredients |-> <<
     \* 牛肉 / 300g
     [name |-> <<"u725b", "u8089">>, amount |-> <<"3", "0", "0", "g">>,
      is_optional |-> FALSE, substitution |-> None],
     \* 玉ねぎ / 1個
     [name |-> <<"u7389", "u306d", "u304e">>, amount |-> <<"1", "u500b">>,
      is_optional |-> FALSE, substitution |-> None],
     \* しょうゆ / 大さじ2
     [name |-> <<"u3057", "u3087", "u3046", "u3086">>, amount |-> <<"u5927", "u3055", "u3058", "2">>,
      is_optional |-> FALSE, substitution |-> None]
   >>,
   steps |-> <<
     [text |-> <<"u5207", "u308b">>],  \* 切る
     [text |-> <<"u4e2d", "u706b", "u3067", "u7092", "u3081", "u308b">>],  \* 中火で炒める
     [text |-> <<"u5473", "u4ed8", "u3051", "u3059", "u308b">>]  \* 味付けする
   >>,
   equipment |-> None]

\* A candidate the provider can return: passes the quality gate; the cheapest; one quantity is in the name.
RecipeMoyashi ==
  [title |-> <<"u3082", "u3084", "u3057", "u5375", "u7092", "u3081">>,  \* もやし卵炒め
   servings |-> 2, total_time_min |-> 20,
   difficulty |-> <<"u3075", "u3064", "u3046">>,  \* ふつう
   ingredients |-> <<
     \* もやし 200g / None
     [name |-> <<"u3082", "u3084", "u3057", " ", "2", "0", "0", "g">>, amount |-> None,
      is_optional |-> FALSE, substitution |-> None],
     \* 卵 / 2個
     [name |-> <<"u5375">>, amount |-> <<"2", "u500b">>,
      is_optional |-> FALSE, substitution |-> None],
     \* 塩 / 少々
     [name |-> <<"u5869">>, amount |-> <<"u5c11", "u3005">>,
      is_optional |-> FALSE, substitution |-> None]
   >>,
   steps |-> <<
     [text |-> <<"u5375", "u3092", "u6eb6", "u304f">>],  \* 卵を溶く
     [text |-> <<"u5f37", "u706b", "u3067", "u7092", "u3081", "u308b">>],  \* 強火で炒める
     [text |-> <<"u5869", "u3092", "u3075", "u308b">>]  \* 塩をふる
   >>,
   equipment |-> None]

\* A candidate the provider can return: fails the quality gate: two steps, no heat word, a to-taste amount.
RecipeSalmon ==
  [title |-> <<"u9bad", "u306e", "u84b8", "u3057", "u7269">>,  \* 鮭の蒸し物
   servings |-> 2, total_time_min |-> 20,
   difficulty |-> <<"u3075", "u3064", "u3046">>,  \* ふつう
   ingredients |-> <<
     \* 鮭 / 200g
     [name |-> <<"u9bad">>, amount |-> <<"2", "0", "0", "g">>,
      is_optional |-> FALSE, substitution |-> None],
     \* キャベツ / None
     [name |-> <<"u30ad", "u30e3", "u30d9", "u30c4">>, amount |-> None,
      is_optional |-> FALSE, substitution |-> None],
     \* しょうゆ / 適量
     [name |-> <<"u3057", "u3087", "u3046", "u3086">>, amount |-> <<"u9069", "u91cf">>,
      is_optional |-> FALSE, substitution |-> None]
   >>,
   steps |-> <<
     [text |-> <<"u5207", "u308b">>],  \* 切る
     [text |-> <<"u84b8", "u3059">>]  \* 蒸す
   >>,
   equipment |-> None]

\* The documents a provider call can return that pass json.loads and
\* RecipeSet.model_validate: the list of their recommendations.
Documents == {
  <<>>,
  <<RecipeSalmon>>,
  <<RecipeSalmon, RecipeBeef, RecipeMoyashi>>
}

\* What one provider call does: the API call raises, its text is no JSON,
\* the JSON is no RecipeSet, or it is the document doc.
Responses ==
  {[kind |-> k, doc |-> <<>>] : k \in {"api_error", "bad_json", "bad_schema"}}
    \cup {[kind |-> "ok", doc |-> d] : d \in Documents}

\* The fallback of generate_recipes: one recipe, built from the arguments.
FallbackRecipe(ingredients, servings, max_minutes, want_keyword, hint_protein) ==
  LET base_ings ==
        IF Len(ingredients) > 0
        THEN [n \in 1..Min(6, Len(ingredients)) |-> Ingredient(ingredients[n])]
        ELSE <<Ingredient(Torimune), Ingredient(Kyabetsu)>>
      title == Or(strip(Or(want_keyword, hint_protein \o SimpleStirFryOf)), SimpleStirFry)
  IN [title |-> title, servings |-> servings,
      total_time_min |-> Min(20, max_minutes), difficulty |-> Kantan,
      ingredients |-> base_ings,
      steps |-> <<[text |-> FallbackStep1], [text |-> FallbackStep2],
                  [text |-> FallbackStep3]>>,
      equipment |-> None]

\* generate_recipes without the except clause: a failure of the provider
\* call leaves the function as an exception
generate_recipes_unguarded(has_client, resp, ingredients, servings, max_minutes, want_keyword, hint_protein) ==
  IF has_client /\ resp.kind = "ok"
  THEN [raised |-> FALSE, recommendations |-> resp.doc]
  ELSE IF has_client
  THEN [raised |-> TRUE, recommendations |-> <<>>]
  ELSE [raised |-> FALSE,
        recommendations |->
          <<FallbackRecipe(ingredients, servings, max_minutes, want_keyword, hint_protein)>>]

\* generate_recipes(...) with _client set (has_client) or None, when the
\* provider call does resp: raised tells whether an exception leaves the
\* function, recommendations is the RecipeSet it returns.
generate_recipes(has_client, resp, ingredients, servings, max_minutes, want_keyword, hint_protein) ==
  IF has_client /\ resp.kind = "ok"
  THEN [raised |-> FALSE, recommendations |-> resp.doc]
  ELSE [raised |-> FALSE,
        recommendations |->
          <<FallbackRecipe(ingredients, servings, max_minutes, want_keyword, hint_protein)>>]

(***************************************************************************)
(* plan_week                                                               *)
(***************************************************************************)
\* FEATURES["WEEK_REPLAN_ATTEMPTS"]
WEEK_REPLAN_ATTEMPTS == 2

\* passed[0] if passed else (recs[0] if recs else the minimal recipe)
ChosenOf(passed, recs, minimal) ==
  IF Len(passed) > 0 THEN passed[1]
  ELSE IF Len(recs) > 0 THEN recs[1]
  ELSE minimal

\* chosen without the quality gate: the first candidate whatever it is
ChosenFirstRaw(recs, minimal) == IF Len(recs) > 0 THEN recs[1] ELSE minimal

\* chosen in make_day: the first candidate that passes the quality gate,
\* else the first candidate, else the minimal recipe built in its place
Chosen(recs, minimal) == ChosenOf(_filter_passed_recipes(recs), recs, minimal)

\* The minimal recipe make_day builds when nothing was chosen.
MinimalRecipe(hint_protein, servings, max_minutes) ==
  [title |-> Or(hint_protein, Torimune) \o StirFryOf, servings |-> servings,
   total_time_min |-> Min(20, max_minutes), difficulty |-> Kantan,
   ingredients |-> <<Ingredient(Or(hint_protein, Torimune)), Ingredient(Kyabetsu)>>,
   steps |-> <<[text |-> MinimalStep]>>,
   equipment |-> None]

\* child_factor=0.8 if child_mode else 1.0, in tenths
ChildFactor(child_mode) == IF child_mode THEN 8 ELSE 10

\* rec with its ingredients normalised for its own servings
Normalised(rec, child_mode) ==
  [rec EXCEPT !.ingredients =
     normalize_ingredients(rec.ingredients, rec.servings, child_mode,
                           ChildFactor(child_mode))]

\* DayPlan(day_index=0, recipe=chosen, est_cost=est_cost), chosen normalised
DayPlanOf(normal, price_factor) ==
  [day_index |-> 0, recipe |-> normal,
   est_cost |-> estimate_cost_yen(normal, price_factor)]

\* make_day after the choice: chosen before normalisation is kept beside
\* the plan.
MakeDayChosen(a, data, chosen) ==
  [raised |-> data.raised, recommendations |-> data.recommendations,
   chosen |-> chosen,
   plan |-> DayPlanOf(Normalised(chosen, a.child_mode), a.price_factor)]

\* make_day after its call of generate_recipes returned data
MakeDayFrom(a, hint_protein, data) ==
  MakeDayChosen(a, data,
                Chosen(data.recommendations,
                       MinimalRecipe(hint_protein, a.servings, a.max_minutes)))

\* make_day(hint_protein, cheap_hint) of plan_week called with the
\* parameters a, _client set (has_client) or None, the provider answering resp.
\* raised: an exception leaves the call of generate_recipes and so make_day;
\* recommendations: data.recommendations; chosen: chosen before
\* normalisation; plan: the DayPlan returned, its day_index still 0.
\* cheap_hint only adds a line to the prompt.
make_day(a, has_client, resp, hint_protein) ==
  MakeDayFrom(a, hint_protein,
              generate_recipes(has_client, resp, <<>>, a.servings, a.max_minutes,
                               a.want_keyword, hint_protein))

\* total_cost <= budget_yen with the comparison made strict
WithinBudgetStrict(total_cost, budget_yen) == total_cost < budget_yen

\* total_cost <= budget_yen, the test of the first pass, of the end of an
\* attempt and of the return
WithinBudget(total_cost, budget_yen) == total_cost <= budget_yen

\* the test of the replacement with equal cost let through
CheaperOrEqual(new_dp, old_dp) == new_dp.est_cost <= old_dp.est_cost

\* new_dp.est_cost < plans[j].est_cost: the regenerated day is kept
Cheaper(new_dp, old_dp) == new_dp.est_cost < old_dp.est_cost

\* the loop over the attempts running one turn too many
AttemptsLeftOneMore(attempt) == attempt <= WEEK_REPLAN_ATTEMPTS

\* for _ in range(attempts): another turn of the loop is left
AttemptsLeft(attempt) == attempt < WEEK_REPLAN_ATTEMPTS

\* range(min(2, len(plans))): the number of days one attempt regenerates
TopDays(plans) == Min(2, Len(plans))

\* the second early exit left out
NoImprovementIgnored(changed) == FALSE

\* if not changed: break
NoImprovement(changed) == ~changed

\* the day index not set
WithDayIndexUnset(dp, idx) == dp

\* dp.day_index = idx
WithDayIndex(dp, idx) == [dp EXCEPT !.day_index = idx]

\* sum(p.est_cost for p in plans)
RECURSIVE SumCosts(_)
SumCosts(plans) ==
  IF Len(plans) = 0 THEN 0 ELSE plans[1].est_cost + SumCosts(Tail(plans))

\* sorted with x put after every plan that costs at least as much
RECURSIVE InsertByCost(_, _)
InsertByCost(sorted, x) ==
  IF Len(sorted) = 0 THEN <<x>>
  ELSE IF sorted[1].est_cost >= x.est_cost
       THEN <<sorted[1]>> \o InsertByCost(Tail(sorted), x)
       ELSE <<x>> \o sorted

\* sorted with x put after every plan that costs at most as much
RECURSIVE InsertByCostAscending(_, _)
InsertByCostAscending(sorted, x) ==
  IF Len(sorted) = 0 THEN <<x>>
  ELSE IF sorted[1].est_cost <= x.est_cost
       THEN <<sorted[1]>> \o InsertByCostAscending(Tail(sorted), x)
       ELSE <<x>> \o sorted

\* the sort without reverse=True: the cheapest first
RECURSIVE SortByCostAscending(_)
SortByCostAscending(plans) ==
  IF Len(plans) = 0 THEN <<>>
  ELSE InsertByCostAscending(SortByCostAscending(SubSeq(plans, 1, Len(plans) - 1)),
                             plans[Len(plans)])

\* plans.sort(key=lambda x: x.est_cost, reverse=True): the dearest first,
\* plans of equal cost in the order they had (the sort is stable)
RECURSIVE SortByCost(_)
SortByCost(plans) ==
  IF Len(plans) = 0 THEN <<>>
  ELSE InsertByCost(SortByCost(SubSeq(plans, 1, Len(plans) - 1)), plans[Len(plans)])

\* rotation[i % len(rotation)], i counted from 0
Rotate(rotation, i) == rotation[(i % Len(rotation)) + 1]

\* Optional[int]: None is the empty set, the int n is {n}
NoneInt == {}

\* the third value of every return taken to be None
FeasibleBudgetNone(total_cost, budget_yen) == NoneInt

\* The third value plan_week returns: None within the budget, else the
\* total reached.
FeasibleBudget(total_cost, budget_yen) ==
  IF WithinBudget(total_cost, budget_yen) THEN NoneInt ELSE {total_cost}

\* What the one-day flow shows of a candidate once it is normalised.
ShownNormal(normal, price_factor) ==
  [recipe |-> normal, est_cost |-> estimate_cost_yen(normal, price_factor),
   ok |-> quality_check(normal)[1]]

\* What the one-day flow shows of the candidate rec: the servings of the
\* form, the normalised ingredients, the cost, the verdict of the gate.
Shown(rec, a) ==
  ShownNormal(Normalised([rec EXCEPT !.servings = a.servings], a.child_mode),
              a.price_factor)

\* want_keyword.lower() in r.recipe_title.lower()
TitleMatches(r, want_keyword) == In(lower(want_keyword), lower(r.title))

\* matched + others when a keyword is wanted
KeywordFirst(recs, want_keyword) ==
  IF Truthy(want_keyword)
  THEN SelectSeq(recs, LAMBDA r : TitleMatches(r, want_keyword))
         \o SelectSeq(recs, LAMBDA r : ~TitleMatches(r, want_keyword))
  ELSE recs

\* _filter_passed_recipes(recs) or recs
PassedOrAll(passed, recs) == IF Len(passed) > 0 THEN passed ELSE recs

\* recs of the one-day flow: the candidates whose title holds the wanted
\* keyword first, then the ones that pass the quality gate if any does.
OneDayCandidates(recs, want_keyword) ==
  PassedOrAll(_filter_passed_recipes(KeywordFirst(recs, want_keyword)),
              KeywordFirst(recs, want_keyword))

(***************************************************************************)
(* The inputs of a run                                                     *)
(***************************************************************************)
\* The week_days slider gives 3 to 7 days; the model takes 3..MaxDays.
MinDays == 3
MaxDays == 3

\* The week_budget input takes every int from 1000 on.
Budgets == {1002, 3000}

Butaniku == <<"u8c5a", "u8089">>  \* 豚肉: pork
Shake == <<"u9bad">>  \* 鮭: salmon
Itame == <<"u7092", "u3081">>  \* 炒め: stir-fried

\* The ingredients field of the form, split at the commas.
IngredientLists == {
  <<>>,
  <<Butaniku, Kyabetsu>>,
  <<Butaniku, Kyabetsu, Shake, Torimune, Ko, Hen, Mai>>
}

\* What the form can submit.  The week mode reads neither the ingredients
\* nor, in the model, a keyword or the child mode; the one-day mode reads
\* none of the week's three settings.
Inputs ==
  {a \in [mode : {"week", "day"},
          num_days : MinDays..MaxDays,
          budget_yen : Budgets,
          servings : {2},
          max_minutes : {30},
          price_factor : {10},
          child_mode : BOOLEAN,
          want_keyword : {<<>>, Itame},
          prefer_cheap : BOOLEAN,
          ingredients_raw : IngredientLists] :
     /\ a.mode = "week" =>
          a.ingredients_raw = <<>> /\ a.want_keyword = <<>> /\ ~a.child_mode
     /\ a.mode = "day" =>
          a.num_days = MinDays /\ a.budget_yen = 3000 /\ ~a.prefer_cheap}

\* The parameters of plan_week that make_day reads.
Closure(a) ==
  [servings |-> a.servings, max_minutes |-> a.max_minutes,
   price_factor |-> a.price_factor, child_mode |-> a.child_mode,
   want_keyword |-> a.want_keyword]

\* The answers a call of generate_recipes can get: with no client the
\* provider is not called.
Answers(has_client) ==
  IF has_client THEN Responses ELSE {[kind |-> "no_client", doc |-> <<>>]}

\* The protein hints plan_week passes.
Hints ==
  {PROTEIN_ROTATION_DEFAULT[n] : n \in 1..Len(PROTEIN_ROTATION_DEFAULT)}
    \cup {PROTEIN_ROTATION_CHEAP[n] : n \in 1..Len(PROTEIN_ROTATION_CHEAP)}

\* The pairs <<k, F(k)>> for k in S, and the F(k) of a k.
Graph(F(_), S) == {<<k, F(k)>> : k \in S}

Image(graph, k) == (CHOOSE t \in graph : t[1] = k)[2]

\* make_day on every call the week mode of the model can make; the planner
\* reads its days from here, so that each is computed once.
MakeDayCalls ==
  {k \in {Closure(a) : a \in {b \in Inputs : b.mode = "week"}}
           \X BOOLEAN \X (Answers(TRUE) \cup Answers(FALSE)) \X Hints :
     k[3] \in Answers(k[2])}

MakeDayGraph == Graph(LAMBDA k : make_day(k[1], k[2], k[3], k[4]), MakeDayCalls)

MadeDay(a, has_client, resp, hint_protein) ==
  Image(MakeDayGraph, <<Closure(a), has_client, resp, hint_protein>>)

\* for rec in recs: what the one-day flow shows of each candidate
RECURSIVE ShownAll(_, _)
ShownAll(recs, a) ==
  IF Len(recs) = 0 THEN <<>> ELSE <<Shown(recs[1], a)>> \o ShownAll(Tail(recs), a)

\* The one-day flow after its call of generate_recipes returned or raised.
OneDayOf(a, data) ==
  [raised |-> data.raised, recommendations |-> data.recommendations,
   shown |-> IF data.raised THEN <<>>
             ELSE ShownAll(OneDayCandidates(data.recommendations, a.want_keyword), a)]

\* The one-day flow on the form a, _client set (has_client) or None, the
\* provider answering resp.
one_day(a, has_client, resp) ==
  OneDayOf(a, generate_recipes(has_client, resp, a.ingredients_raw, a.servings,
                               a.max_minutes, a.want_keyword, <<>>))

\* The one-day flow on every form and answer of the model, each computed once.
OneDayCalls ==
  {k \in {b \in Inputs : b.mode = "day"} \X BOOLEAN
           \X (Answers(TRUE) \cup Answers(FALSE)) :
     k[3] \in Answers(k[2])}

OneDayGraph == Graph(LAMBDA k : one_day(k[1], k[2], k[3]), OneDayCalls)

RanOneDay(a, has_client, resp) == Image(OneDayGraph, <<a, has_client, resp>>)

(***************************************************************************)
(* One run of the script after the form is submitted: plan_week in the     *)
(* week mode, the one-day flow in the one-day mode.                        *)
(***************************************************************************)
VARIABLES
  args,            \* what the form submitted
  client,          \* _client is not None
  pc,              \* where the run is
  plans,           \* plans of plan_week
  total_cost,      \* total_cost of plan_week
  i,               \* the days the first pass has planned
  attempt,         \* the turns of the re-optimization loop that are over
  j,               \* the days the current attempt has regenerated
  changed,         \* changed of plan_week
  result,          \* what plan_week returned: plans, total_cost, feasible budget
  shown,           \* what the one-day flow shows
  calls,           \* history: the calls of generate_recipes so far
  cheap_calls,     \* history: those of them with cheap_hint=True
  last,            \* history: the latest call of generate_recipes and its use
  initial_total,   \* history: the total after the first pass
  attempts_started,\* history: the attempts begun
  replaced,        \* history: the days replaced
  start_plans,     \* history: plans when the current attempt began
  regen_days       \* history: the day indices the current attempt regenerated

vars == <<args, client, pc, plans, total_cost, i, attempt, j, changed, result,
          shown, calls, cheap_calls, last, initial_total, attempts_started,
          replaced, start_plans, regen_days>>

NoCall == [day |-> 0, hint_protein |-> <<>>, cheap_hint |-> FALSE, kind |-> "none",
           raised |-> FALSE, recommendations |-> <<>>, chosen |-> <<>>]

Init ==
  /\ args \in Inputs
  /\ client \in BOOLEAN
  /\ pc = IF args.mode = "week" THEN "first_pass" ELSE "one_day"
  /\ plans = <<>>
  /\ total_cost = 0
  /\ i = 0
  /\ attempt = 0
  /\ j = 0
  /\ changed = FALSE
  /\ result = [plans |-> <<>>, total_cost |-> 0, feasible |-> NoneInt]
  /\ shown = <<>>
  /\ calls = 0
  /\ cheap_calls = 0
  /\ last = NoCall
  /\ initial_total = 0
  /\ attempts_started = 0
  /\ replaced = 0
  /\ start_plans = <<>>
  /\ regen_days = {}

\* The record of a call of make_day for the history variable last.
DayCall(resp, hint_protein, cheap_hint, made, day) ==
  [day |-> day, hint_protein |-> hint_protein, cheap_hint |-> cheap_hint,
   kind |-> resp.kind, raised |-> made.raised,
   recommendations |-> made.recommendations,
   chosen |-> IF made.raised THEN <<>> ELSE <<made.chosen>>]

\* rotation = PROTEIN_ROTATION_CHEAP if prefer_cheap else PROTEIN_ROTATION_DEFAULT
Rotation(prefer_cheap) ==
  IF prefer_cheap THEN PROTEIN_ROTATION_CHEAP ELSE PROTEIN_ROTATION_DEFAULT

\* The body of the first loop once make_day(hint, cheap_hint=False) is
\* over, made what it did.
FirstPassMade(resp, hint, made) ==
  /\ last' = DayCall(resp, hint, FALSE, made, i + 1)
  /\ calls' = calls + 1
  /\ IF made.raised
     THEN pc' = "raised" /\ UNCHANGED <<plans, i>>
     ELSE /\ pc' = pc
          /\ plans' = Append(plans, WithDayIndex(made.plan, i + 1))
          /\ i' = i + 1

\* for i in range(num_days): one day of the first pass
FirstPassDay ==
  /\ pc = "first_pass"
  /\ i < args.num_days
  /\ \E resp \in Answers(client) :
       FirstPassMade(resp, Rotate(Rotation(args.prefer_cheap), i),
                     MadeDay(args, client, resp,
                             Rotate(Rotation(args.prefer_cheap), i)))
  /\ UNCHANGED <<args, client, total_cost, attempt, j, changed, result, shown,
                 cheap_calls, initial_total, attempts_started, replaced,
                 start_plans, regen_days>>

\* The end of the first pass: the total, and the return when it is within
\* the budget.
FirstPassTotal ==
  /\ pc = "first_pass"
  /\ i = args.num_days
  /\ total_cost' = SumCosts(plans)
  /\ initial_total' = SumCosts(plans)
  /\ IF WithinBudget(SumCosts(plans), args.budget_yen)
     THEN /\ result' = [plans |-> plans, total_cost |-> SumCosts(plans),
                        feasible |-> NoneInt]
          /\ pc' = "returned"
     ELSE /\ pc' = "attempt"
          /\ UNCHANGED result
  /\ UNCHANGED <<args, client, plans, i, attempt, j, changed, shown, calls,
                 cheap_calls, last, attempts_started, replaced, start_plans,
                 regen_days>>

\* The head of the re-optimization loop: the next attempt sorts the plans,
\* or the loop is over.
AttemptBegin ==
  /\ pc = "attempt"
  /\ IF AttemptsLeft(attempt)
     THEN /\ plans' = SortByCost(plans)
          /\ changed' = FALSE
          /\ j' = 0
          /\ pc' = "regen"
          /\ attempts_started' = attempts_started + 1
          /\ start_plans' = plans
          /\ regen_days' = {}
     ELSE /\ pc' = "after_loop"
          /\ UNCHANGED <<plans, changed, j, attempts_started, start_plans, regen_days>>
  /\ UNCHANGED <<args, client, total_cost, i, attempt, result, shown, calls,
                 cheap_calls, last, initial_total, replaced>>

\* cheap_protein = PROTEIN_ROTATION_CHEAP[(i-1) % len(PROTEIN_ROTATION_CHEAP)]
CheapProtein(day) == Rotate(PROTEIN_ROTATION_CHEAP, day - 1)

\* if new_dp.est_cost < plans[j].est_cost: plans[j] = new_dp; changed = True
KeepIfCheaper(new_dp) ==
  IF Cheaper(new_dp, plans[j + 1])
  THEN /\ plans' = [plans EXCEPT ![j + 1] = new_dp]
       /\ changed' = TRUE
       /\ replaced' = replaced + 1
  ELSE UNCHANGED <<plans, changed, replaced>>

\* The body of the inner loop once make_day(cheap_protein, cheap_hint=True)
\* is over, made what it did; day is plans[j].day_index.
RegenMade(resp, day, made) ==
  /\ last' = DayCall(resp, CheapProtein(day), TRUE, made, day)
  /\ calls' = calls + 1
  /\ cheap_calls' = cheap_calls + 1
  /\ regen_days' = regen_days \cup {day}
  /\ IF made.raised
     THEN pc' = "raised" /\ UNCHANGED <<plans, changed, replaced, j>>
     ELSE /\ pc' = pc
          /\ j' = j + 1
          /\ KeepIfCheaper(WithDayIndex(made.plan, day))

\* for j in range(min(2, len(plans))): one day regenerated with the cheap
\* hint, kept when it is cheaper
Regen ==
  /\ pc = "regen"
  /\ j < TopDays(plans)
  /\ \E resp \in Answers(client) :
       RegenMade(resp, plans[j + 1].day_index,
                 MadeDay(args, client, resp, CheapProtein(plans[j + 1].day_index)))
  /\ UNCHANGED <<args, client, total_cost, i, attempt, result, shown,
                 initial_total, attempts_started, start_plans>>

\* The end of an attempt: the total again, and the two early exits.
AttemptEnd ==
  /\ pc = "regen"
  /\ j = TopDays(plans)
  /\ total_cost' = SumCosts(plans)
  /\ IF WithinBudget(SumCosts(plans), args.budget_yen) \/ NoImprovement(changed)
     THEN pc' = "after_loop" /\ UNCHANGED attempt
     ELSE pc' = "attempt" /\ attempt' = attempt + 1
  /\ UNCHANGED <<args, client, plans, i, j, changed, result, shown, calls,
                 cheap_calls, last, initial_total, attempts_started, replaced,
                 start_plans, regen_days>>

\* After the loop: the return, with the feasible budget when the total is
\* still over the budget.
Return ==
  /\ pc = "after_loop"
  /\ result' = [plans |-> plans, total_cost |-> total_cost,
                feasible |-> FeasibleBudget(total_cost, args.budget_yen)]
  /\ pc' = "returned"
  /\ UNCHANGED <<args, client, plans, total_cost, i, attempt, j, changed, shown,
                 calls, cheap_calls, last, initial_total, attempts_started,
                 replaced, start_plans, regen_days>>

\* The one-day flow after its call of generate_recipes, ran what the flow
\* did: an exception ends the run with an error, no candidate ends it with
\* a warning, else every candidate kept is shown.
OneDayGot(resp, ran) ==
  /\ last' = [day |-> 0, hint_protein |-> <<>>, cheap_hint |-> FALSE,
              kind |-> resp.kind, raised |-> ran.raised,
              recommendations |-> ran.recommendations, chosen |-> <<>>]
  /\ calls' = calls + 1
  /\ IF ran.raised
     THEN pc' = "failed" /\ UNCHANGED shown
     ELSE IF Len(ran.shown) = 0
          THEN pc' = "stopped" /\ UNCHANGED shown
          ELSE pc' = "shown" /\ shown' = ran.shown

\* The one-day flow: one call of generate_recipes and what is shown of it.
OneDay ==
  /\ pc = "one_day"
  /\ \E resp \in Answers(client) : OneDayGot(resp, RanOneDay(args, client, resp))
  /\ UNCHANGED <<args, client, plans, total_cost, i, attempt, j, changed, result,
                 cheap_calls, initial_total, attempts_started, replaced,
                 start_plans, regen_days>>

Next ==
  \/ FirstPassDay
  \/ FirstPassTotal
  \/ AttemptBegin
  \/ Regen
  \/ AttemptEnd
  \/ Return
  \/ OneDay

Spec == Init /\ [][Next]_vars

\* Each step the run can take is taken: a call of generate_recipes returns.
FairSpec == Spec /\ WF_vars(Next)

(***************************************************************************)
(* plan_week: what the runs of the week mode keep                          *)
(***************************************************************************)
\* plan_week is past its first pass
AfterFirstPass == args.mode = "week" /\ pc \in {"attempt", "regen", "after_loop", "returned"}

\* the plan a list holds for the day d, and its cost
PlanOfDay(ps, d) == ps[CHOOSE k \in 1..Len(ps) : ps[k].day_index = d]

CostOfDay(ps, d) == PlanOfDay(ps, d).est_cost

\* the day indices of a list of plans
DayIndices(ps) == {ps[k].day_index : k \in 1..Len(ps)}

\* C1: whenever the N plans of the first pass cost no more than budget_yen
\* together, plan_week returns at once: N calls of generate_recipes, none of
\* them with cheap_hint=True, no attempt, no day replaced, feasible budget None.
FirstPassWithinBudgetReturns ==
  (args.mode = "week" /\ pc # "first_pass" /\ initial_total <= args.budget_yen) =>
    /\ pc = "returned"
    /\ calls = args.num_days
    /\ cheap_calls = 0
    /\ attempts_started = 0
    /\ replaced = 0
    /\ result.feasible = NoneInt
    /\ result.total_cost = initial_total

\* a first pass that costs exactly the budget has returned
FirstPassAtBudgetReturned ==
  /\ args.mode = "week"
  /\ pc = "returned"
  /\ calls = args.num_days
  /\ initial_total = args.budget_yen

\* C2: on every return of plan_week the total returned is the sum of est_cost
\* over the plans returned, and the feasible budget is None exactly when that
\* total is at most budget_yen and is the total otherwise.
ReturnedTotalAndFeasibleBudget ==
  (args.mode = "week" /\ pc = "returned") =>
    /\ result.total_cost = SumCosts(result.plans)
    /\ (result.feasible = NoneInt) <=> (result.total_cost <= args.budget_yen)
    /\ result.feasible # NoneInt =>
         result.feasible = {result.total_cost} /\ result.total_cost > args.budget_yen

\* a week over the budget after its attempts is returned with its total
OverBudgetReturned ==
  /\ args.mode = "week"
  /\ pc = "returned"
  /\ attempts_started = WEEK_REPLAN_ATTEMPTS
  /\ result.total_cost > args.budget_yen
  /\ result.feasible = {result.total_cost}

\* C3: after the first pass a day's plan changes only to a plan that costs
\* strictly less, so no day's est_cost, nor the sum over the week, nor
\* total_cost ever goes up.
ReplacedOnlyByCheaper ==
  [][AfterFirstPass =>
       /\ \A d \in 1..args.num_days :
            /\ CostOfDay(plans', d) <= CostOfDay(plans, d)
            /\ PlanOfDay(plans', d) # PlanOfDay(plans, d) =>
                 CostOfDay(plans', d) < CostOfDay(plans, d)
       /\ replaced' # replaced => SumCosts(plans') < SumCosts(plans)
       /\ SumCosts(plans') <= SumCosts(plans)
       /\ total_cost' <= total_cost]_vars

\* a week that two attempts made cheaper, three days replaced
WeekMadeCheaper ==
  /\ args.mode = "week"
  /\ pc = "returned"
  /\ replaced >= 3
  /\ result.total_cost < initial_total

\* C4: plan_week returns whenever every call of generate_recipes returns; it
\* starts at most WEEK_REPLAN_ATTEMPTS attempts, each regenerating at most
\* min(2, N) days, and so calls generate_recipes at most
\* N + 2 * WEEK_REPLAN_ATTEMPTS times.
PlanWeekTerminates ==
  /\ [](args.mode = "week" =>
          /\ attempts_started <= WEEK_REPLAN_ATTEMPTS
          /\ j <= Min(2, args.num_days)
          /\ cheap_calls <= attempts_started * Min(2, args.num_days)
          /\ calls <= args.num_days + 2 * WEEK_REPLAN_ATTEMPTS)
  /\ (args.mode = "week") ~> (pc = "returned")

\* a return after every attempt and every regeneration the loop allows
AllAttemptsUsed ==
  /\ args.mode = "week"
  /\ pc = "returned"
  /\ attempts_started = WEEK_REPLAN_ATTEMPTS
  /\ calls = args.num_days + 2 * WEEK_REPLAN_ATTEMPTS

\* C5 as stated: once the sum of est_cost over the week is at most budget_yen
\* no further day is regenerated, and a further attempt starts only when the
\* total is over the budget, the attempt before it replaced a day and
\* attempts remain.
EarlyStopOnceWithinBudget ==
  [][/\ cheap_calls' # cheap_calls => SumCosts(plans) > args.budget_yen
     /\ attempts_started' # attempts_started =>
          /\ SumCosts(plans) > args.budget_yen
          /\ attempts_started = 0 \/ changed
          /\ attempts_started < WEEK_REPLAN_ATTEMPTS]_vars

\* C5: the total is compared with budget_yen where it is computed, after the
\* first pass and at the end of each attempt.  A day is regenerated only while
\* the total_cost computed last is over budget_yen, so an attempt that has
\* begun regenerates both its days; an attempt starts only when the week costs
\* more than budget_yen, the attempt before it, if any, replaced a day, and
\* attempts remain; an attempt that ends within the budget or with no day
\* replaced is the last.
EarlyStopAtAttemptEnd ==
  [][/\ cheap_calls' # cheap_calls => total_cost > args.budget_yen
     /\ attempts_started' # attempts_started =>
          /\ total_cost = SumCosts(plans)
          /\ SumCosts(plans) > args.budget_yen
          /\ attempts_started = 0 \/ changed
          /\ attempts_started < WEEK_REPLAN_ATTEMPTS
     /\ (pc = "regen" /\ pc' # "regen"
           /\ (SumCosts(plans) <= args.budget_yen \/ ~changed)) =>
          pc' = "after_loop"
     /\ pc = "after_loop" => attempts_started' = attempts_started /\ calls' = calls]_vars

\* an attempt that replaced no day was the last, the week still over budget
StoppedWithNoImprovement ==
  /\ args.mode = "week"
  /\ pc = "returned"
  /\ attempts_started = 1
  /\ replaced = 0
  /\ result.total_cost > args.budget_yen

\* C6: after the first pass and on return plans holds exactly N DayPlans
\* whose day_index values are exactly 1..N; sorting and replacing keep the
\* set of day indices, and a plan that replaces another carries its day_index.
DayIndicesKept ==
  /\ [](AfterFirstPass =>
          /\ Len(plans) = args.num_days
          /\ DayIndices(plans) = 1..args.num_days
          /\ pc = "returned" =>
               /\ Len(result.plans) = args.num_days
               /\ DayIndices(result.plans) = 1..args.num_days)
  /\ [][AfterFirstPass =>
          /\ DayIndices(plans') = DayIndices(plans)
          /\ replaced' # replaced =>
               \A k \in 1..Len(plans) : plans'[k].day_index = plans[k].day_index]_vars

\* a week returned after a sort moved its days and a day was replaced
SortedAndReplacedReturned ==
  /\ args.mode = "week"
  /\ pc = "returned"
  /\ replaced > 0
  /\ result.plans[1].day_index # 1

\* C7: the days an attempt regenerates are the min(2, N) days that cost most
\* when the attempt starts, each with cheap_hint=True and the protein hint
\* PROTEIN_ROTATION_CHEAP[(day_index - 1) mod 7] of its own day.
DearestDaysRegenerated ==
  (args.mode = "week" /\ attempts_started > 0) =>
    /\ Cardinality(regen_days) = j
    /\ regen_days \subseteq 1..args.num_days
    /\ pc # "regen" => j = Min(2, args.num_days)
    /\ \A d \in regen_days : \A e \in (1..args.num_days) \ regen_days :
         CostOfDay(start_plans, d) >= CostOfDay(start_plans, e)
    /\ j > 0 =>
         /\ last.cheap_hint
         /\ last.day \in regen_days
         /\ last.hint_protein = PROTEIN_ROTATION_CHEAP[((last.day - 1) % 7) + 1]

\* an attempt is over that regenerated two days, both dearer at its start
\* than a day it left alone
TwoDearestRegenerated ==
  /\ args.mode = "week"
  /\ pc = "after_loop"
  /\ Cardinality(regen_days) = 2
  /\ \E e \in (1..args.num_days) \ regen_days :
       \A d \in regen_days : CostOfDay(start_plans, d) > CostOfDay(start_plans, e)

\* the candidates of a set that pass quality_check, by position
Passing(recs) == {k \in 1..Len(recs) : quality_check(recs[k])[1]}

\* C8: make_day chooses the first candidate that passes quality_check if one
\* does, else the first candidate if there is one, else the hard-coded minimal
\* Recipe; every call of make_day yields a DayPlan.
MakeDayChoice ==
  (args.mode = "week" /\ last.kind # "none") =>
    /\ last.chosen =
         <<IF Passing(last.recommendations) # {}
           THEN last.recommendations[CHOOSE k \in Passing(last.recommendations) :
                                       \A m \in Passing(last.recommendations) : k <= m]
           ELSE IF Len(last.recommendations) > 0
                THEN last.recommendations[1]
                ELSE MinimalRecipe(last.hint_protein, args.servings, args.max_minutes)>>
    /\ pc = "first_pass" => Len(plans) = calls /\ plans[calls].day_index = last.day
    /\ AfterFirstPass => \E k \in 1..Len(plans) : plans[k].day_index = last.day

\* make_day chose the second candidate, the first one failing the gate
SecondCandidateChosen ==
  /\ args.mode = "week"
  /\ Len(last.recommendations) = 3
  /\ 1 \notin Passing(last.recommendations)
  /\ last.chosen = <<last.recommendations[2]>>

\* C9: a provider failure (the call raises, the document is not JSON or not
\* of the schema, no client is set) raises nothing in the caller:
\* generate_recipes returns exactly one fallback Recipe, the same for the
\* same arguments, with 3 steps and at least one ingredient.
ProviderFailureFallsBack ==
  last.kind \in {"api_error", "bad_json", "bad_schema", "no_client"} =>
    /\ ~last.raised
    /\ pc \notin {"raised", "failed"}
    /\ Len(last.recommendations) = 1
    /\ Len(last.recommendations[1].steps) = 3
    /\ Len(last.recommendations[1].ingredients) >= 1
    /\ last.recommendations[1] =
         FallbackRecipe(IF args.mode = "week" THEN <<>> ELSE args.ingredients_raw,
                        args.servings, args.max_minutes, args.want_keyword,
                        last.hint_protein)

\* a week returned whose last regeneration met a document that is not JSON
BadJsonFellBack ==
  /\ args.mode = "week"
  /\ pc = "returned"
  /\ last.kind = "bad_json"
  /\ last.cheap_hint
  /\ Len(last.recommendations) = 1

\* C10 as stated: a well-formed document with no candidate is followed by
\* exactly one more call of generate_recipes, and the one-day flow then shows
\* a Recipe.
EmptySetRegeneratedOnce ==
  [][(calls' # calls /\ last'.kind = "ok" /\ last'.recommendations = <<>>) =>
       /\ calls' = calls + 2
       /\ pc' # "stopped"]_vars

(***************************************************************************)
(* Nutrition estimator and profile scoring                                 *)
(***************************************************************************)
Tamago == <<"u5375">>  \* 卵: egg
Ninniku == <<"u306b", "u3093", "u306b", "u304f">>  \* にんにく: garlic
Shio == <<"u5869">>  \* 塩: salt

\* The keys whose tablespoon counts as one unit of the table.
TBSP_UNIT_KEYS == <<
  <<"u3057", "u3087", "u3046", "u3086">>,  \* しょうゆ
  <<"u307f", "u308a", "u3093">>,  \* みりん
  <<"u9152">>,  \* 酒
  <<"u5473", "u564c">>,  \* 味噌
  <<"u3054", "u307e", "u6cb9">>,  \* ごま油
  <<"u30aa", "u30ea", "u30fc", "u30d6", "u30aa", "u30a4", "u30eb">>,  \* オリーブオイル
  <<"u5869">>  \* 塩
>>

\* The keys whose teaspoon counts as a third of a tablespoon.
TSP_AS_TBSP_KEYS == <<
  <<"u3057", "u3087", "u3046", "u3086">>,  \* しょうゆ
  <<"u307f", "u308a", "u3093">>,  \* みりん
  <<"u9152">>,  \* 酒
  <<"u5473", "u564c">>,  \* 味噌
  <<"u3054", "u307e", "u6cb9">>,  \* ごま油
  <<"u30aa", "u30ea", "u30fc", "u30d6", "u30aa", "u30a4", "u30eb">>  \* オリーブオイル
>>

\* The fields estimate_nutrition totals.
NUTRI_FIELDS == {"kcal", "protein_g", "fat_g", "carb_g", "salt_g"}

\* piece_g of the piece branch of estimate_nutrition
NutritionPieceGrams(name) ==
  IF In(Tamago, name) THEN 50 ELSE IF In(Ninniku, name) THEN 5 ELSE 30

\* key in [...], keys a sequence of strings
IsOneOf(key, keys) == \E n \in 1..Len(keys) : keys[n] = key

\* factor of estimate_nutrition for the food key, val of it in unit; val
\* and the factor are fractions.  Another unit adds nothing (continue).
NutritionFactor(key, name, unit, val) ==
  IF unit = "g" THEN RMul(val, Rat(1, 100))
  ELSE IF unit = "tbsp"
  THEN IF IsOneOf(key, TBSP_UNIT_KEYS) THEN val
       ELSE RMul(RMul(val, Rat(15, 1)), Rat(1, 100))
  ELSE IF unit = "tsp"
  THEN IF key = Shio THEN val
       ELSE IF IsOneOf(key, TSP_AS_TBSP_KEYS) THEN RMul(val, Rat(1, 3))
       ELSE RMul(RMul(val, Rat(5, 1)), Rat(1, 100))
  ELSE IF unit = "piece"
  THEN RMul(RMul(Rat(NutritionPieceGrams(name), 1), val), Rat(1, 100))
  ELSE Rat(0, 1)

\* base[k] * factor for every field k; the table holds tenths
ScaledNutrition(meta, factor) ==
  [f \in NUTRI_FIELDS |-> RMul(Rat(meta[f], 10), factor)]

\* total before the loop of estimate_nutrition
ZeroNutrition == [f \in NUTRI_FIELDS |-> Rat(0, 1)]

\* What an ingredient adds to total, k the index of the first key of FOODS
\* in its name (0: none: continue), uv = <<unit, value>> its amount.
NutritionOf(k, name, uv) ==
  IF k = 0 THEN ZeroNutrition
  ELSE ScaledNutrition(FOODS[k],
                       NutritionFactor(FOODS[k].key, name, uv[1], Rat(uv[2], Scale)))

\* What the ingredient ing adds to total in estimate_nutrition.
IngredientNutrition(ing) ==
  NutritionOf(FirstKey(FOODS, ing.name), ing.name,
              amount_to_grams_or_spoons(Or(ing.amount, <<>>)))

\* total[k] += ... for every field k
AddNutrition(x, y) == [f \in NUTRI_FIELDS |-> RAdd(x[f], y[f])]

\* total after the loop of estimate_nutrition over ings
RECURSIVE SumNutrition(_)
SumNutrition(ings) ==
  IF Len(ings) = 0 THEN ZeroNutrition
  ELSE AddNutrition(SumNutrition(SubSeq(ings, 1, Len(ings) - 1)),
                    IngredientNutrition(ings[Len(ings)]))

\* round(x, 1) in tenths for the fraction x = n / (d * 10): the nearest
\* tenth; when the fraction lies midway between two tenths the double the
\* program holds is a little to one side of it, and either is the result.
RoundTenths(n, d) ==
  IF (2 * n) % (2 * d) = d THEN {n \div d, (n \div d) + 1} ELSE {round(n, d)}

\* round(total[k] / serv, 1) of the field f, in tenths
FieldPerServing(total, serv, f) == RoundTenths(total[f][1] * 10, total[f][2] * serv)

\* The results of rounding every field of total for serv servings.
PerServing(total, serv) ==
  [kcal : FieldPerServing(total, serv, "kcal"),
   protein_g : FieldPerServing(total, serv, "protein_g"),
   fat_g : FieldPerServing(total, serv, "fat_g"),
   carb_g : FieldPerServing(total, serv, "carb_g"),
   salt_g : FieldPerServing(total, serv, "salt_g")]

\* estimate_nutrition(rec): the results it can return, every field for one
\* serving, in tenths
estimate_nutrition(rec) ==
  PerServing(SumNutrition(rec.ingredients), Max(1, rec.servings))

\* the ranges of the profiles, in tenths
NUTRI_PROFILES == <<
  \* ふつう
  [name |-> <<"u3075", "u3064", "u3046">>,
   kcal |-> <<5000, 8000>>, protein_g |-> <<200, 350>>, salt_g |-> <<0, 25>>],
  \* ダイエット
  [name |-> <<"u30c0", "u30a4", "u30a8", "u30c3", "u30c8">>,
   kcal |-> <<3500, 6000>>, protein_g |-> <<250, 400>>, salt_g |-> <<0, 20>>],
  \* がっつり
  [name |-> <<"u304c", "u3063", "u3064", "u308a">>,
   kcal |-> <<7000, 10000>>, protein_g |-> <<350, 550>>, salt_g |-> <<0, 30>>],
  \* 減塩
  [name |-> <<"u6e1b", "u5869">>,
   kcal |-> <<5000, 8000>>, protein_g |-> <<200, 350>>, salt_g |-> <<0, 20>>]
>>

\* NUTRI_PROFILES.get(profile_name, NUTRI_PROFILES["ふつう"])
ProfileOf(profile_name) ==
  IF \E n \in 1..Len(NUTRI_PROFILES) : NUTRI_PROFILES[n].name = profile_name
  THEN NUTRI_PROFILES[CHOOSE n \in 1..Len(NUTRI_PROFILES) :
                        NUTRI_PROFILES[n].name = profile_name]
  ELSE NUTRI_PROFILES[1]

\* val < lo*0.9 for val and lo in tenths: the doubles lo*0.9 of the table
\* are the exact products.
BelowLowTolerance(val, lo) == 10 * val < 9 * lo

\* hi*1.15 in thousandths of a tenth, rounded down: the double 800*1.15 is
\* 919.9999999999999, below 920; the other products of the table compare
\* with a value of one decimal as the exact ones do.
HighTolerance(hi) == IF hi = 8000 THEN 919999 ELSE 115 * hi

\* mark(val, rng) of score_against_profile, val and rng in tenths
mark(val, rng) ==
  IF BelowLowTolerance(val, rng[1]) THEN "borderline"
  ELSE IF rng[1] <= val /\ val <= rng[2] THEN "excellent"
  ELSE IF 100 * val <= HighTolerance(rng[2]) THEN "borderline"
  ELSE "out_of_range"

\* The marks of nutri against the profile prof.
ScoreOf(nutri, prof) ==
  [kcal |-> mark(nutri.kcal, prof.kcal),
   protein_g |-> mark(nutri.protein_g, prof.protein_g),
   salt_g |-> mark(nutri.salt_g, prof.salt_g)]

\* score_against_profile(nutri, profile_name)
score_against_profile(nutri, profile_name) == ScoreOf(nutri, ProfileOf(profile_name))

(***************************************************************************)
(* Calls of the functions on their own                                     *)
(*                                                                         *)
(* A second specification: args is one call of one function (args.fn names *)
(* it), pc is "call" before it returns, result is what it returned, shown  *)
(* what a second application to the result returned.  The variables of the *)
(* planner keep their initial values.                                      *)
(***************************************************************************)
\* Ingredient(name=name, amount=amount)
Ing(name, amount) ==
  [name |-> name, amount |-> amount, is_optional |-> FALSE, substitution |-> None]

\* Recipe(..., servings=servings, ingredients=ings, steps=steps)
Rec(ings, steps, servings) ==
  [title |-> <<"x">>, servings |-> servings, total_time_min |-> 20,
   difficulty |-> None, ingredients |-> ings, steps |-> steps, equipment |-> None]

\* The variables of the planner, which a call leaves alone.
planner_vars == <<client, plans, total_cost, i, attempt, j, changed, calls,
                  cheap_calls, last, initial_total, attempts_started, replaced,
                  start_plans, regen_days>>

\* A call of a function that returns r.
Returns(r) ==
  /\ pc = "call"
  /\ pc' = "returned"
  /\ result' = r
  /\ UNCHANGED <<args, shown>>
  /\ UNCHANGED planner_vars

\* A second application, to what the call returned, that returns r.
ReturnsAgain(r) ==
  /\ pc = "returned"
  /\ pc' = "returned_again"
  /\ shown' = r
  /\ UNCHANGED <<args, result>>
  /\ UNCHANGED planner_vars

(***************************************************************************)
(* Calls of quality_check                                                  *)
(***************************************************************************)
UmeQuantityName == <<"u6885", "u8089", " ", "2", "0", "0", "g">>  \* 梅肉 200g

\* Ingredient(name="梅肉 200g"): the amount is None
UmeIngredient == Ing(UmeQuantityName, None)

\* Ingredients for the calls of quality_check.
GateIngredients == <<
  Ing(<<"u5869">>, <<"u5c11", "u3005">>),  \* 塩 少々
  Ing(<<"u8c5a", "u8089">>, <<"2", "0", "0", "g">>),  \* 豚肉 200g
  Ing(<<"u30ad", "u30e3", "u30d9", "u30c4">>, <<"u9069", "u91cf">>),  \* キャベツ 適量
  Ing(<<"u30ad", "u30e3", "u30d9", "u30c4">>, <<"1", "0", "0", "g">>)  \* キャベツ 100g
>>

\* The ingredient lists of the calls of quality_check.
GateIngredientLists ==
  {<<>>, <<UmeIngredient>>, <<UmeIngredient, GateIngredients[1]>>,
   <<GateIngredients[2], GateIngredients[3], GateIngredients[1]>>,
   <<GateIngredients[2], UmeIngredient, GateIngredients[4]>>}

\* The step lists of the calls of quality_check.
GateStepLists ==
  {<<>>,
   \* 切る
   <<[text |-> <<"u5207", "u308b">>]>>,
   \* 切る / 中火で炒める / 盛り付ける
   <<[text |-> <<"u5207", "u308b">>],
     [text |-> <<"u4e2d", "u706b", "u3067", "u7092", "u3081", "u308b">>],
     [text |-> <<"u76db", "u308a", "u4ed8", "u3051", "u308b">>]>>}

\* The calls of quality_check.
QualityCheckCalls ==
  {[fn |-> "quality_check", rec |-> Rec(ings, steps, 2)] :
     ings \in GateIngredientLists, steps \in GateStepLists}

\* ok, warns = quality_check(rec)
QualityCheckCall ==
  /\ args.fn = "quality_check"
  /\ Returns(quality_check(args.rec))

(***************************************************************************)
(* Calls of score_against_profile                                          *)
(***************************************************************************)
\* How far, in tenths, the values of a call lie from a threshold of a range.
MarkSlack == 1

\* The names the profile of a call is drawn from: those of NUTRI_PROFILES
\* and one that is not among them.
ProfileNames ==
  {NUTRI_PROFILES[n].name : n \in 1..Len(NUTRI_PROFILES)} \union {<<"x">>}

\* The four thresholds of the range rng, in tenths: 90% of the low bound,
\* the bounds, 115% of the high bound (rounded down).
Thresholds(rng) ==
  {(9 * rng[1]) \div 10, rng[1], rng[2], (115 * rng[2]) \div 100}

\* The values, in tenths, at most MarkSlack from a threshold of rng, and 0.
NearThresholds(rng) ==
  UNION {Max(0, t - MarkSlack)..(t + MarkSlack) : t \in Thresholds(rng)} \union {0}

\* A result of estimate_nutrition whose field f is v and whose kcal,
\* protein_g and salt_g are otherwise the low bounds of prof.
NutriWith(prof, f, v) ==
  [[kcal |-> prof.kcal[1], protein_g |-> prof.protein_g[1], fat_g |-> 100,
    carb_g |-> 200, salt_g |-> prof.salt_g[1]] EXCEPT ![f] = v]

\* The calls of score_against_profile.
ScoreCalls ==
  UNION {{[fn |-> "score_against_profile", nutri |-> NutriWith(ProfileOf(pf[1]), pf[2], v),
           profile_name |-> pf[1]] : v \in NearThresholds(ProfileOf(pf[1])[pf[2]])} :
           pf \in ProfileNames \X {"kcal", "protein_g", "salt_g"}}

\* score = score_against_profile(nutri, profile_name)
ScoreCall ==
  /\ args.fn = "score_against_profile"
  /\ Returns(score_against_profile(args.nutri, args.profile_name))

(***************************************************************************)
(* Calls of normalize_ingredients                                          *)
(***************************************************************************)
\* The most servings of a call.
MaxServings == 2

\* The names of the ingredients of a call.
NormalizeNames == {
  <<"u3057", "u3087", "u3046", "u3086">>,  \* しょうゆ
  <<"u5473", "u564c">>,  \* 味噌
  <<"u4e00", "u5473", "u5510", "u8f9b", "u5b50">>,  \* 一味唐辛子
  <<"u8c5a", "u8089">>,  \* 豚肉
  <<"u5375">>,  \* 卵
  <<"u6885", "u8089", " ", "2", "0", "0", "g">>,  \* 梅肉 200g
  <<"2", "0", "0", "g">>,  \* 200g
  <<"u30ad", "u30e3", "u30d9", "u30c4", " ", "u5927", "u3055", "u3058", "0">>  \* キャベツ 大さじ0
}

\* The amounts of the ingredients of a call.
NormalizeAmounts == {
  None,  \* None
  <<>>,  \* ""
  <<"u5927", "u3055", "u3058", "2">>,  \* 大さじ2
  <<"u5c0f", "u3055", "u3058", "1">>,  \* 小さじ1
  <<"7", "g">>,  \* 7g
  <<"5", "g">>,  \* 5g
  <<"2", "0", "0", "g">>,  \* 200g
  <<"0", "g">>,  \* 0g
  <<"0", " ", "g">>,  \* 0 g
  <<"0", "m", "l">>,  \* 0ml
  <<"u5c0f", "u3055", "u3058", "0">>,  \* 小さじ0
  <<"u9069", "u91cf">>,  \* 適量
  <<"u5c11", "u3005">>,  \* 少々
  <<"1", ".", ".", ".", "0", "0", "0", "g">>  \* 1...000g
}

\* The ingredients of a call.
NormalizeIngredients == {Ing(n, a) : n \in NormalizeNames, a \in NormalizeAmounts}

\* The ingredients of the lists of two of a call.
NormalizePairs ==
  {Ing(<<"u3057", "u3087", "u3046", "u3086">>, <<"u5927", "u3055", "u3058", "2">>), Ing(<<"u8c5a", "u8089">>, <<"2", "0", "0", "g">>), Ing(<<"u6885", "u8089", " ", "2", "0", "0", "g">>, None)}

\* The ingredient lists of a call: of none, of one, of two.
NormalizeLists ==
  {<<>>} \union {<<x>> : x \in NormalizeIngredients}
         \union {<<x, y>> : x \in NormalizePairs, y \in NormalizePairs}

\* The calls of normalize_ingredients; child_factor in tenths.
NormalizeCalls ==
  [fn : {"normalize_ingredients"}, ings : NormalizeLists, servings : 1..MaxServings,
   child_mode : BOOLEAN, child_factor : {8}]

\* fixed = normalize_ingredients(ings, servings, child_mode, child_factor)
NormalizeCall ==
  /\ args.fn = "normalize_ingredients"
  /\ Returns(normalize_ingredients(args.ings, args.servings, args.child_mode,
                                   args.child_factor))

\* normalize_ingredients(fixed, servings, child_mode, child_factor)
NormalizeAgain ==
  /\ args.fn = "normalize_ingredients"
  /\ ReturnsAgain(normalize_ingredients(result, args.servings, args.child_mode,
                                        args.child_factor))

(***************************************************************************)
(* Calls of unit_value_to_amount                                           *)
(***************************************************************************)
\* The most grams of a call.
MaxGrams == 160

\* The most eighths of a spoon or of a piece of a call.
MaxEighths == 24

\* The values of a call in the unit u, in 1/Scale: whole grams and 0.4 g,
\* eighths of a spoon or of a piece.
RenderValues(u) ==
  IF u = "g" THEN {g * Scale : g \in 0..MaxGrams} \union {(4 * Scale) \div 10}
  ELSE {q * (Scale \div 8) : q \in 0..MaxEighths}

\* The calls of unit_value_to_amount.
RenderCalls ==
  UNION {{[fn |-> "unit_value_to_amount", u |-> u, v |-> v] : v \in RenderValues(u)} :
           u \in {"tbsp", "tsp", "g", "piece"}}

\* unit_value_to_amount(*uv)
RenderOf(uv) == unit_value_to_amount(uv[1], uv[2])

\* amount = unit_value_to_amount(u, v)
RenderCall ==
  /\ args.fn = "unit_value_to_amount"
  /\ Returns(unit_value_to_amount(args.u, args.v))

\* unit_value_to_amount(*amount_to_unit_value(amount))
RenderAgain ==
  /\ args.fn = "unit_value_to_amount"
  /\ ReturnsAgain(RenderOf(amount_to_unit_value(result)))

(***************************************************************************)
(* Calls of estimate_nutrition and of estimate_cost_yen                    *)
(***************************************************************************)
\* Names of a call that are no key of FOODS, or hold one.
OtherNames == {
  <<"u6885", "u8089">>,  \* 梅肉
  <<"u8c46", "u82d7">>,  \* 豆苗
  <<"u5375", "u8c46", "u8150">>,  \* 卵豆腐
  <<"u5869", "u9bad">>  \* 塩鮭
}

\* The names of the ingredient of a call: the keys of FOODS and OtherNames.
EstimateNames == {FOODS[n].key : n \in 1..Len(FOODS)} \union OtherNames

\* The amounts of the ingredient of a call.
EstimateAmounts == {
  <<"u5927", "u3055", "u3058", "1">>,  \* 大さじ1
  <<"u5927", "u3055", "u3058", "2">>,  \* 大さじ2
  <<"u5c0f", "u3055", "u3058", "2">>,  \* 小さじ2
  <<"1", "0", "0", "g">>,  \* 100g
  <<"2", "u500b">>,  \* 2個
  <<"u5c11", "u3005">>,  \* 少々
  <<"2", "0", "0", "m", "l">>,  \* 200ml
  None  \* None
}

\* The recipes of a call: of one ingredient.
EstimateRecipes ==
  {Rec(<<Ing(n, a)>>, <<>>, s) :
     n \in EstimateNames, a \in EstimateAmounts, s \in 1..MaxServings}

\* The calls of estimate_nutrition.
NutritionCalls == [fn : {"estimate_nutrition"}, rec : EstimateRecipes]

\* The calls of estimate_cost_yen; price_factor in tenths.
CostCalls == [fn : {"estimate_cost_yen"}, rec : EstimateRecipes, price_factor : {10}]

\* A call of an estimator that returns r, total the value of its variable
\* total when its loop is over: shown keeps it.
Estimated(r, total) ==
  /\ pc = "call"
  /\ pc' = "returned"
  /\ result' = r
  /\ shown' = total
  /\ UNCHANGED args
  /\ UNCHANGED planner_vars

\* nutri = estimate_nutrition(rec)
NutritionCall ==
  /\ args.fn = "estimate_nutrition"
  /\ \E r \in estimate_nutrition(args.rec) :
       Estimated(r, SumNutrition(args.rec.ingredients))

\* est_cost = estimate_cost_yen(rec, price_factor)
CostCall ==
  /\ args.fn = "estimate_cost_yen"
  /\ Estimated(estimate_cost_yen(args.rec, args.price_factor),
               SumCost(args.rec.ingredients, args.price_factor))

(***************************************************************************)
(* Calls of _guess_amount                                                  *)
(***************************************************************************)
\* The names of a call.
GuessNames == {
  <<"u5375">>,  \* 卵
  <<"u5375", "u8c46", "u8150">>,  \* 卵豆腐
  <<"u306d", "u304e">>,  \* ねぎ
  <<"u9577", "u306d", "u304e">>,  \* 長ねぎ
  <<"u7389", "u306d", "u304e">>,  \* 玉ねぎ
  <<"u3054", "u307e", "u6cb9">>,  \* ごま油
  <<"u80e1", "u6912">>,  \* 胡椒
  <<"u6885", "u8089">>,  \* 梅肉
  <<"u9d8f", "u3080", "u306d", "u8089">>,  \* 鶏むね肉
  <<"u306b", "u3093", "u306b", "u304f", "u91a4", "u6cb9">>,  \* にんにく醤油
  <<"u5869", "u9bad">>,  \* 塩鮭
  <<"u30b3", "u30c1", "u30e5", "u30b8", "u30e3", "u30f3">>,  \* コチュジャン
  <<"u4e00", "u5473">>,  \* 一味
  <<"u5375", "u304b", "u3051", "u3057", "u3087", "u3046", "u3086">>  \* 卵かけしょうゆ
}

\* The calls of _guess_amount.
GuessCalls == [fn : {"_guess_amount"}, name : GuessNames, servings : 1..MaxServings]

\* amt = _guess_amount(base_name, servings)
GuessCall ==
  /\ args.fn = "_guess_amount"
  /\ Returns(_guess_amount(args.name, args.servings))

(***************************************************************************)
(* Calls of adjust_child_friendly_amount                                   *)
(***************************************************************************)
\* The names of a call.
ChildNames == {
  <<"u5473", "u564c">>,  \* 味噌
  <<"u3057", "u3087", "u3046", "u3086">>,  \* しょうゆ
  <<"u5869">>,  \* 塩
  <<"u3054", "u307e", "u6cb9">>,  \* ごま油
  <<"u4e00", "u5473", "u5510", "u8f9b", "u5b50">>,  \* 一味唐辛子
  <<"u30b3", "u30c1", "u30e5", "u30b8", "u30e3", "u30f3">>,  \* コチュジャン
  <<"u8c5a", "u8089">>,  \* 豚肉
  <<"u30ad", "u30e3", "u30d9", "u30c4">>  \* キャベツ
}

\* The amounts of a call: whole grams, eighths of a spoon, pieces, the
\* trace amount; normalize_ingredients never passes an empty one.
ChildAmounts ==
  {NatToDigits(g) \o <<"g">> : g \in 1..MaxGrams}
    \union {Tbsp \o FormatG(q * (Scale \div 8)) : q \in 1..MaxEighths}
    \union {Tsp \o FormatG(q * (Scale \div 8)) : q \in 1..MaxEighths}
    \union {<<"2">> \o Ko, Trace}

\* The calls of adjust_child_friendly_amount; factor in tenths.
ChildCalls ==
  [fn : {"adjust_child_friendly_amount"}, name : ChildNames, amount : ChildAmounts,
   factor : {8}]

\* amt = adjust_child_friendly_amount(base_name, amt, child_factor)
ChildCall ==
  /\ args.fn = "adjust_child_friendly_amount"
  /\ Returns(adjust_child_friendly_amount(args.name, args.amount, args.factor))

(***************************************************************************)
(* The specification of the calls                                          *)
(***************************************************************************)
CallInputs ==
  QualityCheckCalls \union ScoreCalls \union NormalizeCalls
    \union RenderCalls \union NutritionCalls \union CostCalls
    \union GuessCalls \union ChildCalls

CallInit ==
  /\ args \in CallInputs
  /\ pc = "call"
  /\ result = <<>>
  /\ shown = <<>>
  /\ client = FALSE
  /\ plans = <<>>
  /\ total_cost = 0
  /\ i = 0
  /\ attempt = 0
  /\ j = 0
  /\ changed = FALSE
  /\ calls = 0
  /\ cheap_calls = 0
  /\ last = NoCall
  /\ initial_total = 0
  /\ attempts_started = 0
  /\ replaced = 0
  /\ start_plans = <<>>
  /\ regen_days = {}

CallNext ==
  \/ QualityCheckCall
  \/ ScoreCall
  \/ NormalizeCall
  \/ NormalizeAgain
  \/ RenderCall
  \/ RenderAgain
  \/ NutritionCall
  \/ CostCall
  \/ GuessCall
  \/ ChildCall
  \/ NormalizeCall
  \/ NormalizeAgain
  \/ RenderCall
  \/ RenderAgain
  \/ NutritionCall
  \/ CostCall
  \/ GuessCall
  \/ ChildCall

CallSpec == CallInit /\ [][CallNext]_vars

(***************************************************************************)
(* Claims about the functions                                              *)
(***************************************************************************)
\* The call is quality_check on the recipe whose only ingredient is named
\* 梅肉 200g, without an amount, and which has no steps.
UmeRecipeCall ==
  /\ args.fn = "quality_check"
  /\ args.rec.ingredients = <<UmeIngredient>>
  /\ args.rec.steps = <<>>

\* C11 as stated: quality_check on the recipe whose only ingredient is
\* named 梅肉 200g and which has no steps fails with exactly three reasons:
\* too few ingredients, too few steps, no heat marker.
UmeRecipeThreeReasons ==
  (pc = "returned" /\ UmeRecipeCall) =>
    result = <<FALSE, <<"few_ingredients", "few_steps", "no_heat">>>>

\* C11: quality_check on the recipe whose only ingredient is named
\* 梅肉 200g and which has no steps fails with exactly four reasons: too few
\* ingredients, too few steps, no heat marker and no basic seasoning; the
\* vague-amount reason is not emitted.
UmeRecipeFourReasons ==
  (pc = "returned" /\ UmeRecipeCall) =>
    result = <<FALSE, <<"few_ingredients", "few_steps", "no_heat", "no_seasoning">>>>

\* quality_check returned a failure for the recipe of 梅肉 200g.
UmeRecipeFailed == pc = "returned" /\ UmeRecipeCall /\ ~result[1]

\* The mark the contract gives the value val against the range rng: within
\* the range excellent; below it but at least 90% of the low bound, or above
\* it but at most 115% of the high bound, borderline; otherwise out of range.
ContractMark(val, rng) ==
  IF rng[1] <= val /\ val <= rng[2] THEN "excellent"
  ELSE IF \/ (9 * rng[1] <= 10 * val /\ val < rng[1])
          \/ (rng[2] < val /\ 100 * val <= 115 * rng[2])
  THEN "borderline"
  ELSE "out_of_range"

\* C12: score_against_profile marks a value v against the range [lo, hi]
\* excellent iff lo <= v <= hi, borderline iff 0.9*lo <= v < lo or
\* hi < v <= 1.15*hi, and out of range in every other case, every v < 0.9*lo
\* and no v = 1.15*hi among them.
MarksFollowContract ==
  (pc = "returned" /\ args.fn = "score_against_profile") =>
    \A f \in {"kcal", "protein_g", "salt_g"} :
      result[f] = ContractMark(args.nutri[f], ProfileOf(args.profile_name)[f])

\* The names and amounts of the ingredients ings.
NamesAndAmounts(ings) == [n \in 1..Len(ings) |-> <<ings[n].name, ings[n].amount>>]

\* C13: normalize_ingredients is idempotent: for every ingredient list,
\* servings >= 1 and the same child_mode and child_factor, normalizing the
\* normalized list yields the same names and amounts.
NormalizeIdempotent ==
  (pc = "returned_again" /\ args.fn = "normalize_ingredients") =>
    NamesAndAmounts(shown) = NamesAndAmounts(result)

\* C14: display round trip: for every quantity (unit, value) with unit
\* tbsp, tsp, g or piece and value >= 0, parsing the rendered amount and
\* rendering it again gives the rendered amount.
RenderRoundTrip ==
  (pc = "returned_again" /\ args.fn = "unit_value_to_amount") => shown = result

\* text without its whitespace
RECURSIVE WithoutWhitespace(_)
WithoutWhitespace(text) ==
  IF Len(text) = 0 THEN <<>>
  ELSE IF text[1] \in Whitespace THEN WithoutWhitespace(Tail(text))
  ELSE <<text[1]>> \o WithoutWhitespace(Tail(text))

\* The zero quantities 0g, 0ml, 小さじ0, 大さじ0, 0個.
ZeroQuantities ==
  {<<"0", "g">>, <<"0", "m", "l">>, Tsp \o <<"0">>, Tbsp \o <<"0">>, <<"0">> \o Ko}

\* The amount is a zero quantity, with or without spaces.
IsZeroQuantity(amount) == WithoutWhitespace(amount) \in ZeroQuantities

\* C15: after normalize_ingredients, the name of every output ingredient
\* contains no quantity token (no match of the quantity-in-name pattern),
\* its amount is a non-empty string and its amount is never a zero quantity.
NormalizedNamesAndAmountsClean ==
  (pc = "returned" /\ args.fn = "normalize_ingredients") =>
    \A n \in 1..Len(result) :
      /\ QtySearch(result[n].name, 1)[1] = 0
      /\ Truthy(result[n].amount)
      /\ ~IsZeroQuantity(result[n].amount)

\* The call estimates a recipe whose one ingredient is named by the key of
\* FOODS[k] and whose amount is in the unit u.
OneFoodIn(k, u) ==
  /\ args.rec.ingredients[1].name = FOODS[k].key
  /\ FirstKey(FOODS, FOODS[k].key) = k
  /\ amount_to_grams_or_spoons(Or(args.rec.ingredients[1].amount, <<>>))[1] = u

\* The value of the amount of the one ingredient of the call, a fraction.
ValueOfAmount ==
  Rat(amount_to_grams_or_spoons(Or(args.rec.ingredients[1].amount, <<>>))[2], Scale)

\* The factor the contract gives val tablespoons of a food of price
\* reference ref: val itself when the record is tablespoon-referenced,
\* val * 15 / 100 otherwise.
ContractTbspFactor(ref, val) ==
  IF ref = "yen_per_tbsp" THEN val ELSE RMul(val, Rat(15, 100))

\* C16: for an amount in tablespoons the factor of estimate_nutrition is
\* the tablespoon value itself for every tablespoon-referenced record and
\* value * 15 / 100 for every other matched record: the total of every
\* field is the field of the record times that factor.
TbspFactorByReference ==
  (pc = "returned" /\ args.fn = "estimate_nutrition") =>
    \A k \in 1..Len(FOODS) :
      OneFoodIn(k, "tbsp") =>
        shown = ScaledNutrition(FOODS[k], ContractTbspFactor(FOODS[k].ref, ValueOfAmount))

\* The call estimates a recipe whose one ingredient has no key of FOODS in
\* its name.
UnmatchedIngredient == FirstKey(FOODS, args.rec.ingredients[1].name) = 0

\* The amount of the one ingredient of the call is a positive quantity in
\* grams, tablespoons, teaspoons or pieces.
PositiveQuantity ==
  /\ amount_to_grams_or_spoons(Or(args.rec.ingredients[1].amount, <<>>))[1]
       \in {"g", "tbsp", "tsp", "piece"}
  /\ amount_to_grams_or_spoons(Or(args.rec.ingredients[1].amount, <<>>))[2] > 0

\* C17: an ingredient whose name holds no key of FOODS adds zero to every
\* field of estimate_nutrition, and adds a positive cost in
\* estimate_cost_yen whenever its amount is a positive quantity in grams,
\* tablespoons, teaspoons or pieces.
UnmatchedZeroNutritionPositiveCost ==
  (pc = "returned" /\ args.fn \in {"estimate_nutrition", "estimate_cost_yen"}
                   /\ UnmatchedIngredient) =>
    /\ args.fn = "estimate_nutrition" =>
         /\ shown = ZeroNutrition
         /\ \A f \in NUTRI_FIELDS : result[f] = 0
    /\ (args.fn = "estimate_cost_yen" /\ PositiveQuantity) => shown[1] > 0

\* The tables _guess_amount searches, in the order of the claim.
GuessTables ==
  <<PIECE_PER_SERV, PROTEIN_G_PER_SERV, VEG_G_PER_SERV, OIL_TSP_PER_SERV,
    COND_TSP_PER_SERV>>

\* The keys that are substrings of name: <<t, k>> for the k-th key of the
\* t-th table.
KeysIn(name) ==
  UNION {{<<t, k>> : k \in {x \in 1..Len(GuessTables[t]) :
                              In(GuessTables[t][x].key, name)}} :
           t \in 1..Len(GuessTables)}

\* The first of the keys M in the order of the tables and, within a table,
\* of its keys.
FirstOfKeys(M) ==
  CHOOSE tk \in M : \A x \in M : tk[1] < x[1] \/ (tk[1] = x[1] /\ tk[2] <= x[2])

\* The amount for servings derived from the k-th key of the t-th table.
AmountFromKey(t, k, servings) ==
  IF t = 1 THEN PieceAmount(PIECE_PER_SERV[k].per, servings)
  ELSE IF t = 2 THEN _grams_to_pretty(PROTEIN_G_PER_SERV[k].g * servings)
  ELSE IF t = 3 THEN _grams_to_pretty(VEG_G_PER_SERV[k].g * servings)
  ELSE IF t = 4 THEN _round_tsp_to_pretty(OIL_TSP_PER_SERV[k].tsp * servings)
  ELSE _round_tsp_to_pretty(COND_TSP_PER_SERV[k].tsp * servings)

\* What the claim has _guess_amount return, M the keys in name.
FirstMatchAmount(name, servings, M) ==
  IF M = {} THEN (IF AnyIn(TRACE_ONLY_WORDS, name) THEN Trace ELSE ToTaste)
  ELSE AmountFromKey(FirstOfKeys(M)[1], FirstOfKeys(M)[2], servings)

\* C18: _guess_amount derives its result from the first key that is a
\* substring of the name, the tables taken in the order PIECE_PER_SERV,
\* PROTEIN_G_PER_SERV, VEG_G_PER_SERV, OIL_TSP_PER_SERV, COND_TSP_PER_SERV
\* and the keys in the order of their table; a name that contains 卵 gives
\* servings pieces (個) and never grams; a name without a key gives 少々 for
\* a trace-only marker and 適量 otherwise.
GuessIsFirstMatch ==
  (pc = "returned" /\ args.fn = "_guess_amount") =>
    /\ result = FirstMatchAmount(args.name, args.servings, KeysIn(args.name))
    /\ In(Tamago, args.name) => result = NatToDigits(args.servings) \o Ko

\* _guess_amount returned a piece count for a name that contains 卵 and
\* a key of the table of the proteins besides.
EggAndProteinGuessedAsPieces ==
  /\ pc = "returned"
  /\ args.fn = "_guess_amount"
  /\ In(Tamago, args.name)
  /\ \E k \in 1..Len(PROTEIN_G_PER_SERV) :
       PROTEIN_G_PER_SERV[k].key # Tamago /\ In(PROTEIN_G_PER_SERV[k].key, args.name)
  /\ result = NatToDigits(args.servings) \o Ko

\* C19: in estimate_cost_yen an ingredient whose amount is the trace
\* amount 少々, without a number, adds exactly zero to the total, whatever
\* its name and the price reference of its record.
TraceAmountCostsNothing ==
  (pc = "returned" /\ args.fn = "estimate_cost_yen"
                   /\ args.rec.ingredients[1].amount # None
                   /\ In(Trace, args.rec.ingredients[1].amount)
                   /\ ~_has_number(args.rec.ingredients[1].amount)) =>
    shown = Rat(0, 1) /\ result = 0

\* The adjusted amount adjusted is the trace amount or is in the unit of
\* uv = <<unit, value>> with at most its value.
NotIncreased(uv, adjusted) ==
  \/ adjusted = Trace
  \/ /\ amount_to_unit_value(adjusted)[1] = uv[1]
     /\ amount_to_unit_value(adjusted)[2] <= uv[2]

\* What the claim says of a call of name that returned adjusted, uv the
\* unit and the value of its amount.
ChildAdjusted(name, amount, uv, adjusted) ==
  /\ is_spicy(name) => In(Trace, adjusted)
  /\ (~is_spicy(name) /\ is_condiment(name) /\ uv[1] \in {"tbsp", "tsp", "g"} /\ uv[2] > 0)
       => NotIncreased(uv, adjusted)
  /\ (~is_spicy(name) /\ ~is_condiment(name)) => adjusted = amount

\* C20: the child-mode adjustment never increases a seasoning: for a
\* condiment that is not spicy and an amount of v > 0 tablespoons,
\* teaspoons or grams, adjust_child_friendly_amount with the factor 0.8
\* returns the trace amount or an amount in the same unit with a value
\* <= v; a spicy ingredient gets the trace amount (with the note that
\* adults add it afterwards); any other amount is returned unchanged.
ChildAdjustmentNeverIncreases ==
  (pc = "returned" /\ args.fn = "adjust_child_friendly_amount") =>
    ChildAdjusted(args.name, args.amount, amount_to_unit_value(args.amount), result)

====
